---- MODULE Spec2Model ----
(***************************************************************************)
(* State-machine model of the trade execution and signal-monitoring core   *)
(* of the AiTraderGlobal backend:                                          *)
(*   - TradeManager          (backend/services/trade_manager.py)           *)
(*   - EMAMonitorFirebase    (backend/services/ema_monitor_firebase.py)    *)
(*   - AutoTradingManager    (backend/services/auto_trading_manager.py)    *)
(*   - UnifiedExchangeService (backend/services/unified_exchange.py)       *)
(*   - the exchange adapters (backend/services/*_service.py)               *)
(* Strings that the code concatenates, splits or prefix-tests (user ids,   *)
(* exchange names, symbols, task keys) are sequences of characters, so     *)
(* that f-string formatting, str.startswith and str.split are computed as  *)
(* the code computes them.  Optional values (Python None) are sequences of *)
(* length 0 (None) or 1.                                                   *)
(*                                                                         *)
(* Every Firebase call of the code is synchronous, so a coroutine only     *)
(* yields at its real awaits (HTTP calls and asyncio.sleep).  The actions  *)
(* below are the code between two such awaits.                             *)
(* The specifications share the variables:                                 *)
(*   SpecTM      sequential TradeManager.create_order calls of API callers *)
(*   SpecTrades  create_order with any side and close_position calls       *)
(*   SpecDet     one detector key: start/stop and the ticks of its task    *)
(*   SpecSched   the scheduler's reconciliation cycles and task lifecycle  *)
(*   SpecGateway one caller's calls of the gateway, with retries and cache *)
(*   SpecRate    concurrent callers of the gateway on one exchange         *)
(*   SpecAdapter one adapter create_order call on each exchange            *)
(*   SpecEma     calculate_ema calls on each exchange                      *)
(*   SpecStop    the emergency stop, called while a detector task runs     *)
(*   SpecRace    create_order requests concurrent with an auto-trade       *)
(*   SpecSchedLive  SpecSched with fair cycles and fair task steps         *)
(*   SpecChange  settings changes between the scheduler's cycles           *)
(*   SpecUsers   users whose ids are prefixes or contain the separator     *)
(*   SpecLoops   start() and stop() of the scheduler and its run() loops   *)
(*   SpecOrderId one create_order call over the adapters' result shapes    *)
(***************************************************************************)
EXTENDS Integers, Sequences, FiniteSets, TLC

VARIABLES
    firebase_initialized, \* backend.firebase_admin.firebase_initialized
    trades,               \* store path trades/{user}: Trades in push-key order
    exchange_orders,      \* orders the exchange adapters accepted
    co,                   \* create_order activations, one per caller slot
    returns,              \* completed create_order calls, in order
    next_id,              \* source of fresh push keys, uuids and generated ids
    settings,             \* store path trading_settings/{user}
    api_keys,             \* store path users/{user}/api_keys: exchanges with keys
    ema_cache,            \* store path ema_cache/{user}/{symbol}/{interval}/ema{p}
    now,                  \* time.time(), in seconds
    tasks,                \* the asyncio tasks running monitor_symbol
    monitoring_tasks,     \* EMAMonitorFirebase.monitoring_tasks: key -> task
    active_monitors,      \* AutoTradingManager.active_monitors
    clock,                \* time.time() as the gateway reads it, in ms
    time_steps,           \* how often the clock has moved
    last_request_time,    \* UnifiedExchangeService._last_request_time
    balance_cache,        \* UnifiedExchangeService._balance_cache
    gcall,                \* gateway calls, one activation per caller slot
    n_gcalls,             \* gateway calls made so far
    adapter_started,      \* per exchange: when its last adapter call began
    closest,              \* per exchange: smallest gap between two such starts
    ad,                   \* the adapter create_order call in progress
    n_ad,                 \* adapter create_order calls made so far
    ema_signals,          \* store path ema_signals/{user}: Signal records
    broadcasts,           \* messages ConnectionManager.broadcast_signal sent
    ema_call,             \* the calculate_ema call in progress
    n_ema,                \* calculate_ema calls made so far
    emergency_stopped,    \* users whose POST /stop returned, until they enable
    running,              \* AutoTradingManager.running
    loops                 \* the asyncio tasks that start() created for run()

tmVars == <<firebase_initialized, trades, exchange_orders, co, returns, next_id>>
envVars == <<settings, api_keys, now>>
detVars == <<ema_cache, tasks, monitoring_tasks>>
schedVars == <<active_monitors>>
gwVars == <<clock, time_steps, last_request_time, balance_cache, gcall,
            n_gcalls, adapter_started, closest>>
adVars == <<ad, n_ad>>
sigVars == <<ema_signals, broadcasts>>
emaVars == <<ema_call, n_ema>>
stopVars == <<emergency_stopped>>
mgrVars == <<running, loops>>
vars == <<tmVars, envVars, detVars, schedVars, gwVars, adVars, sigVars, emaVars, stopVars, mgrVars>>

----------------------------------------------------------------------------
(* Bounds of the model *)

\* create_order calls an API caller makes in one behaviour of SpecTM
MaxCalls == 2

(* Values *)
None == <<>>
Some(x) == <<x>>

UserA == <<"a">>
UserB == <<"b">>
Users == {UserA, UserB}
Binance == <<"B", "N">>
Bybit == <<"B", "Y">>
Exchanges == {Binance, Bybit}
SymS == <<"S">>
SymT == <<"T">>
Symbols == {SymS, SymT}
Sides == {"BUY", "SELL"}
\* idempotency keys supplied by API callers
ClientIds == {<<"k", 1>>, <<"k", 2>>}
Intervals == {"15m"}
Periods == {9, 21}
\* ema_cache/{user}/{symbol}/{interval}/ema{period}
CacheKeys == Users \X Symbols \X Intervals \X Periods
\* Slot 0 carries the requests of the HTTP API
ApiSlots == {0}
\* Detector tasks created in one behaviour
MaxTasks == 2
TaskIds == 1..MaxTasks
\* The slots of two HTTP requests that are served at the same time
ConcurrentSlots == {0, MaxTasks + 1}
\* One create_order activation per API request slot and per detector task
Slots == ApiSlots \cup TaskIds \cup ConcurrentSlots

----------------------------------------------------------------------------
(* TradeManager *)

\* generate_client_order_id: user_symbol_timestamp_uuid8, unique per call
generate_client_order_id(n) == <<"g", n>>

\* The query trades/{user}.order_by_child('client_order_id').equal_to(id):
\* the matching Trades, in key order.
TradesByClientOrderId(user_id, client_order_id) ==
    SelectSeq(trades, LAMBDA t : t.user = user_id
                                 /\ t.client_order_id = client_order_id)

\* get_trade_by_client_order_id: None when Firebase is not initialized and
\* when the query raises (lookup_ok = FALSE), else the first match.
get_trade_by_client_order_id(user_id, client_order_id, lookup_ok) ==
    IF ~firebase_initialized THEN None
    ELSE IF ~lookup_ok THEN None
    ELSE LET found == TradesByClientOrderId(user_id, client_order_id)
         IN IF found # <<>> THEN Some(found[1]) ELSE None

\* Mutant of AfterLookup: the lookup's answer is ignored.
AfterLookup_Ignored(existing_trade) == "price"

\* What create_order does with the lookup's answer: return the stored Trade
\* or go on to the price fetch.
AfterLookup(existing_trade) ==
    IF existing_trade # None THEN "return" ELSE "price"

\* The sides a create_order request is made with (api/positions.py names
\* "LONG" and "SHORT", the detector passes "BUY" and "SELL").
RequestSides == {"BUY", "SELL", "LONG", "SHORT", "buy"}

\* str.upper() of a side
upper(side) == IF side = "buy" THEN "BUY" ELSE side

\* Mutant of TpAboveEntry: every side is priced as a buy.
TpAboveEntry_Always(side) == TRUE

\* create_order's TP/SL prices (lines 278-293): the take profit lies above
\* the entry price when side.upper() is BUY or LONG.
TpAboveEntry(side) == upper(side) \in {"BUY", "LONG"}

\* What the detector passes when the settings name no TP/SL percentage
\* (ema_monitor_firebase.py lines 434-435), and the price of a venue.
DefaultTp == 5
DefaultSl == 2
DefaultPrice == 100

\* create_order's tp_price (lines 278-285), in cents: None unless the
\* percentage is positive.
tp_price(entry_price, side, tp_percentage) ==
    IF tp_percentage > 0
    THEN IF TpAboveEntry(side)
         THEN Some(entry_price * (100 + tp_percentage))
         ELSE Some(entry_price * (100 - tp_percentage))
    ELSE None

\* create_order's sl_price (lines 279-293), in cents.
sl_price(entry_price, side, sl_percentage) ==
    IF sl_percentage > 0
    THEN IF TpAboveEntry(side)
         THEN Some(entry_price * (100 - sl_percentage))
         ELSE Some(entry_price * (100 + sl_percentage))
    ELSE None

\* BinanceService.create_order's trigger prices (binance_service.py lines
\* 258-266): the take profit lies above the entry when side.upper() is BUY.
AdapterTpAboveEntry(side) == upper(side) = "BUY"

\* An adapter's result is the venue's JSON body, handed over as it came
\* (binance_service.py line 301, bybit_service.py line 166).  A value of one
\* of its keys: absent, null, a text or a number, written with its characters.
Absent == [t |-> "absent", v |-> <<>>]
Null == [t |-> "null", v |-> <<>>]
Str(chars) == [t |-> "str", v |-> chars]
Num(digits) == [t |-> "int", v |-> digits]
\* The value under 'data' or 'result': absent, null, a list, or an object
\* with what it holds under 'orderId'.
NoObject == [kind |-> "absent", orderId |-> Absent]
NullObject == [kind |-> "null", orderId |-> Absent]
ListValue == [kind |-> "list", orderId |-> Absent]
Object(order_id) == [kind |-> "dict", orderId |-> order_id]

\* bool(x) of a value that dict.get returned (None for an absent key)
IsTrue(x) == \/ x.t = "str" /\ x.v # <<>>
             \/ x.t = "int" /\ x.v # <<"0">>

\* str(x), here ToStr: the decimal digits of a number, a text as it is
ToStr(x) == Str(x.v)

\* result.get(key, {}).get('orderId'): the default stands in for an absent
\* key only; None and a list have no get and the call raises AttributeError.
\* <<the value, whether it raised>>
GetNested(value) ==
    IF value.kind = "absent" THEN <<Absent, FALSE>>
    ELSE IF value.kind = "dict" THEN <<value.orderId, FALSE>>
    ELSE <<Absent, TRUE>>

\* uuid.uuid4(), the placeholder id
Placeholder == Str(<<"u", "u", "i", "d">>)

\* Mutant of the extraction: without the placeholder, str(None) is the id.
exchange_order_id_NoPlaceholder(result) ==
    IF IsTrue(result.orderId) THEN <<ToStr(result.orderId), FALSE>>
    ELSE IF IsTrue(result.order_id) THEN <<ToStr(result.order_id), FALSE>>
    ELSE IF IsTrue(result.id) THEN <<ToStr(result.id), FALSE>>
    ELSE IF GetNested(result.data)[2] THEN <<Absent, TRUE>>
    ELSE IF IsTrue(GetNested(result.data)[1])
         THEN <<ToStr(GetNested(result.data)[1]), FALSE>>
    ELSE IF GetNested(result.result)[2] THEN <<Absent, TRUE>>
    ELSE IF IsTrue(GetNested(result.result)[1])
         THEN <<ToStr(GetNested(result.result)[1]), FALSE>>
    ELSE <<Str(<<"N", "o", "n", "e">>), FALSE>>

\* The order id create_order takes from the adapter's result (lines
\* 356-363), an or-chain evaluated from the left that stops at the first
\* true value: <<the id, whether the expression raised>>.
exchange_order_id(result) ==
    IF IsTrue(result.orderId) THEN <<ToStr(result.orderId), FALSE>>
    ELSE IF IsTrue(result.order_id) THEN <<ToStr(result.order_id), FALSE>>
    ELSE IF IsTrue(result.id) THEN <<ToStr(result.id), FALSE>>
    ELSE IF GetNested(result.data)[2] THEN <<Absent, TRUE>>
    ELSE IF IsTrue(GetNested(result.data)[1])
         THEN <<ToStr(GetNested(result.data)[1]), FALSE>>
    ELSE IF GetNested(result.result)[2] THEN <<Absent, TRUE>>
    ELSE IF IsTrue(GetNested(result.result)[1])
         THEN <<ToStr(GetNested(result.result)[1]), FALSE>>
    ELSE <<Placeholder, FALSE>>

\* A result with none of the keys
EmptyResult ==
    [orderId |-> Absent, order_id |-> Absent, id |-> Absent,
     data |-> NoObject, result |-> NoObject]

\* What the venues of the adapters in src answer to an accepted order:
\* Binance an object with a numeric orderId, Bybit one with result.orderId.
AdapterResult(exchange) ==
    IF exchange = Bybit
    THEN [EmptyResult EXCEPT !.result = Object(Str(<<"5">>))]
    ELSE [EmptyResult EXCEPT !.orderId = Num(<<"1">>)]

\* The trade_data record create_order builds for an accepted order (lines
\* 370-388); closed_at is absent until the Trade is closed.
TradeData(c) ==
    [id |-> None, user |-> c.user, client_order_id |-> c.client_order_id,
     exchange |-> c.exchange, symbol |-> c.symbol, side |-> upper(c.side),
     is_futures |-> c.is_futures, status |-> "open", call |-> c.call,
     tp_above |-> TpAboveEntry(c.side), closed_at |-> None,
     entry_price |-> c.entry_price,
     tp_price |-> tp_price(c.entry_price, c.side, c.tp_percentage),
     sl_price |-> sl_price(c.entry_price, c.side, c.sl_percentage),
     tp_percentage |-> c.tp_percentage, sl_percentage |-> c.sl_percentage,
     exchange_order_id |-> c.exchange_order_id]

\* Mutant of save_trade: a failed write raises instead of returning a uuid.
save_trade_Raises(trade_data, save_ok, n) ==
    IF ~firebase_initialized \/ ~save_ok THEN <<trades, <<"uuid", n>>, TRUE>>
    ELSE <<Append(trades, [trade_data EXCEPT !.id = Some(<<"push", n>>)]),
           <<"push", n>>, FALSE>>

\* save_trade: <<the store afterwards, the trade id it returns, whether it
\* raised>>.  It never raises: a store that is not initialized or whose push
\* raises (save_ok = FALSE) is left alone and a fresh uuid4 is returned
\* instead of the push key (lines 120-122, 148-150).
save_trade(trade_data, save_ok, n) ==
    IF ~firebase_initialized THEN <<trades, <<"uuid", n>>, FALSE>>
    ELSE IF ~save_ok THEN <<trades, <<"uuid", n>>, FALSE>>
    ELSE <<Append(trades, [trade_data EXCEPT !.id = Some(<<"push", n>>)]),
           <<"push", n>>, FALSE>>

\* A create_order activation.  call numbers the activation; existed,
\* price_env, adapter_env and save_env record what the store and the venue
\* answered; missed tells that the lookup raised while a Trade with the id
\* was stored; n_price and n_adapter count the calls it made; result is the
\* adapter's result and exchange_order_id the id taken from it.
IdleCall ==
    [pc |-> "idle", user |-> None, client_order_id |-> None, exchange |-> None,
     symbol |-> None, side |-> "", is_futures |-> FALSE, call |-> 0,
     existed |-> FALSE, price_env |-> "", adapter_env |-> "", save_env |-> "",
     n_price |-> 0, n_adapter |-> 0, trade_id |-> None, before |-> "",
     tp_percentage |-> 0, sl_percentage |-> 0, entry_price |-> 0,
     missed |-> FALSE, result |-> EmptyResult, exchange_order_id |-> Absent]

Env(ok) == IF ok THEN "ok" ELSE "fail"

\* One completed create_order call: what the caller got and what the call did.
Result(s, c, outcome, idempotent, trade_id, id_key, status, n_write) ==
    [slot |-> s, call |-> c.call, user |-> c.user,
     client_order_id |-> c.client_order_id, exchange |-> c.exchange,
     symbol |-> c.symbol, side |-> c.side, is_futures |-> c.is_futures,
     missed |-> c.missed, existed |-> c.existed,
     price_env |-> c.price_env,
     adapter_env |-> c.adapter_env, save_env |-> c.save_env,
     outcome |-> outcome, idempotent |-> idempotent,
     trade_id |-> trade_id, id_key |-> id_key, status |-> status,
     n_price |-> c.n_price, n_adapter |-> c.n_adapter, n_write |-> n_write,
     target |-> c.trade_id, before |-> c.before, result |-> c.result,
     exchange_order_id |-> c.exchange_order_id]

\* The handlers at lines 425-446: every exception raised inside create_order
\* reaches the caller as an ExchangeError.
Raise(s, c) ==
    returns' = Append(returns,
                  Result(s, c, "ExchangeError", FALSE, None, "", "", 0))

\* create_order up to its first await (the price fetch): lines 238-263.
CreateOrderBegin(s, user_id, exchange, symbol, side, is_futures, tp_percentage, sl_percentage, client_order_id, lookup_ok) ==
    /\ co[s].pc = "idle"
    /\ LET id == IF client_order_id = None
                 THEN generate_client_order_id(next_id)
                 ELSE client_order_id[1]
           existing_trade == get_trade_by_client_order_id(user_id, id, lookup_ok)
           c == [IdleCall EXCEPT !.user = user_id, !.client_order_id = id,
                    !.exchange = exchange, !.symbol = symbol, !.side = side,
                    !.is_futures = is_futures, !.call = next_id,
                    !.tp_percentage = tp_percentage,
                    !.sl_percentage = sl_percentage,
                    !.missed = (firebase_initialized /\ ~lookup_ok
                        /\ TradesByClientOrderId(user_id, id) # <<>>),
                    !.existed = (firebase_initialized /\ lookup_ok
                        /\ TradesByClientOrderId(user_id, id) # <<>>)]
       IN /\ next_id' = next_id + 1
          /\ IF AfterLookup(existing_trade) = "return"
             THEN /\ returns' = Append(returns,
                        Result(s, c, "returned", TRUE, existing_trade[1].id,
                               "id", existing_trade[1].status, 0))
                  /\ co' = co
             ELSE /\ co' = [co EXCEPT ![s] = [c EXCEPT !.pc = "price"]]
                  /\ returns' = returns
    /\ UNCHANGED <<firebase_initialized, trades, exchange_orders>>

\* Mutant of AfterPrice: a failed price fetch is swallowed.
AfterPrice_Swallowed(price_ok) == "adapter"

\* What create_order does with the answer of unified_exchange.get_current_price
\* (lines 263-271): an exception propagates, a price lets it go on.
AfterPrice(price_ok) == IF price_ok THEN "adapter" ELSE "raise"

\* create_order from the price fetch's answer to its next await (the adapter
\* call): lines 263-344.
CreateOrderPrice(s, price_ok, price) ==
    /\ co[s].pc = "price"
    /\ LET c == [co[s] EXCEPT !.n_price = @ + 1, !.price_env = Env(price_ok),
                    !.entry_price = IF price_ok THEN price ELSE 0]
       IN IF AfterPrice(price_ok) = "adapter"
          THEN /\ co' = [co EXCEPT ![s] = [c EXCEPT !.pc = "adapter"]]
               /\ returns' = returns
          ELSE /\ co' = [co EXCEPT ![s] = IdleCall]
               /\ Raise(s, c)
    /\ UNCHANGED <<firebase_initialized, trades, exchange_orders, next_id>>

\* The order an exchange adapter placed: its side is side.upper()
\* (binance_service.py lines 222, 279).
ExchangeOrder(c) ==
    [user |-> c.user, client_order_id |-> c.client_order_id,
     exchange |-> c.exchange, symbol |-> c.symbol, side |-> upper(c.side),
     is_futures |-> c.is_futures, call |-> c.call,
     tp_above |-> AdapterTpAboveEntry(c.side)]

\* What create_order does with the adapter's answer (lines 311-393): an
\* exception propagates, a result is persisted.
AfterAdapter(adapter_ok) == IF adapter_ok THEN "save" ELSE "raise"

\* create_order from the adapter's answer to its end: lines 311-446.  An
\* accepted order is on the exchange whatever create_order does next; an
\* order id expression that raises ends the call in the handler of line 434,
\* before the Trade is written.
CreateOrderDispatchWith(s, adapter_ok, result, save_ok) ==
    /\ co[s].pc = "adapter"
    /\ LET extracted == exchange_order_id(result)
           stored == adapter_ok /\ ~extracted[2]
           c == [co[s] EXCEPT !.n_adapter = @ + 1,
                    !.adapter_env = Env(adapter_ok),
                    !.result = IF adapter_ok THEN result ELSE EmptyResult,
                    !.exchange_order_id = IF stored THEN extracted[1]
                                          ELSE Absent,
                    !.save_env = IF stored
                                 THEN Env(firebase_initialized /\ save_ok)
                                 ELSE ""]
           saved == save_trade(TradeData(c), save_ok, next_id)
       IN /\ exchange_orders' = IF adapter_ok
                                THEN Append(exchange_orders, ExchangeOrder(c))
                                ELSE exchange_orders
          /\ IF AfterAdapter(adapter_ok) = "save" /\ ~extracted[2]
             THEN /\ trades' = saved[1]
                  /\ next_id' = next_id + 1
                  /\ IF saved[3]
                     THEN Raise(s, c)
                     ELSE returns' = Append(returns,
                            Result(s, c, "returned", FALSE, Some(saved[2]),
                                   "trade_id", "open",
                                   Len(saved[1]) - Len(trades)))
             ELSE /\ Raise(s, c)
                  /\ UNCHANGED <<trades, next_id>>
    /\ co' = [co EXCEPT ![s] = IdleCall]
    /\ UNCHANGED firebase_initialized

\* ... with the result of the exchange's adapter
CreateOrderDispatch(s, adapter_ok, save_ok) ==
    CreateOrderDispatchWith(s, adapter_ok, AdapterResult(co[s].exchange), save_ok)

----------------------------------------------------------------------------
(* UnifiedExchangeService: retry with backoff, rate limiting and the      *)
(* balance cache.  Times are in milliseconds.                              *)

\* retry_with_backoff's parameters
InitialDelay == 1000
ExponentialBase == 2
MaxDelay == 60000
\* UnifiedExchangeService.__init__
MinRequestInterval == 100
CacheDuration == 120000

\* Concurrent callers of the gateway, the calls they make in one behaviour
\* and the number of times the clock moves
MaxCallers == 2
MaxGwCalls == 3
MaxTimeSteps == 3
Callers == 1..MaxCallers
\* time.time() when the behaviour begins
StartClock == 1000000
\* the adapter's answers to a balance request
MaxBalance == 2
Balances == 1..MaxBalance

\* The characters of the model's names stand for lower-case text; a capital
\* letter is written with a leading "^".  str.lower():
Lower(str) == [i \in DOMAIN str |-> IF str[i] = "^B" THEN "B" ELSE str[i]]

BinanceCaps == <<"^B", "N">>
Okx == <<"O", "K">>
Kucoin == <<"K", "C">>
Mexc == <<"M", "X">>
Kraken == <<"K", "R">>
\* the names of the if/elif chain of the gateway's methods
SupportedExchanges == {Binance, Bybit, Okx, Kucoin, Mexc}
\* the exchange arguments the callers pass
GwExchanges == {Binance, BinanceCaps, Kraken}
GwNames == {Lower(e) : e \in GwExchanges}
GwApiKey == <<"K">>

Operations == {"get_balance", "get_current_price", "get_positions"}

\* The max_retries each method is decorated with (lines 136, 239, 302).
max_retries(op) == IF op = "get_positions" THEN 2 ELSE 3

\* An error message is the set of the texts it contains, of those the code
\* looks for or writes.
AuthPatterns == {"invalid", "unauthorized", "forbidden", "api key"}
RatePatterns == {"429", "rate limit", "too many requests"}
\* what an adapter's failure says
AdapterMessages ==
    {{"timeout"}, {"unauthorized"}, {"429"}, {"too many requests"},
     {"api key", "rate limit"}}
UnsupportedMessage == {"unsupported exchange"}
\* ExchangeError(..., f"Failed to fetch ...: {str(e)}", e), lines 234-237
Wrap(msg) == msg \cup {"failed to fetch"}

Min(a, b) == IF a < b THEN a ELSE b

\* f"{exchange_name}_{api_key}_{'futures' if is_futures else 'spot'}"
cache_key(exchange_name, api_key, is_futures) ==
    exchange_name \o <<"_">> \o api_key \o <<"_">>
        \o <<IF is_futures THEN "futures" ELSE "spot">>

BalanceKeys ==
    {cache_key(e, GwApiKey, f) : e \in GwNames, f \in BOOLEAN}

\* The normalized balance (lines 209-217)
Normalized(exchange_name, is_futures, total) ==
    [exchange |-> exchange_name,
     type |-> IF is_futures THEN "futures" ELSE "spot", total |-> total]

\* One activation of a decorated gateway method.  attempt, delay are the
\* wrapper's locals; n_func counts the runs of the wrapped method, n_adapter
\* the adapter calls, n_rate the runs of _rate_limit; sleeps are the
\* wait_times slept, failure the last exception's message; seen_age is the
\* age of the cache entry the last run found; fetches the adapter calls
\* that filled the entry a cached answer came from.
IdleGcall ==
    [pc |-> "idle", op |-> "", exchange |-> None, is_futures |-> TRUE,
     attempt |-> 0, delay |-> 0, wake |-> 0, n_func |-> 0, n_adapter |-> 0,
     n_rate |-> 0, sleeps |-> <<>>, failure |-> None, outcome |-> "",
     cause |-> None, value |-> None, cached |-> FALSE, seen_age |-> None,
     fetches |-> 0]

InitGw ==
    /\ clock = StartClock
    /\ time_steps = 0
    /\ last_request_time = [e \in GwExchanges |-> 0]
    /\ balance_cache = [k \in BalanceKeys |-> None]
    /\ gcall = [s \in Callers |-> IdleGcall]
    /\ n_gcalls = 0
    /\ adapter_started = [e \in GwNames |-> None]
    /\ closest = [e \in GwNames |-> None]

----------------------------------------------------------------------------
(* Exchange adapters: BinanceService.create_order and                       *)
(* BybitService.create_order (binance_service.py, bybit_service.py)         *)

\* Quantities of the base asset are counted in units of 10^-8 coin, the
\* resolution of round(quantity, 8); prices are in whole USDT and trigger
\* prices in cents.  (Python floats are modelled by exact arithmetic: the
\* inputs below divide without remainder at this resolution.)
QtyScale == 100000000

MaxAdCalls == 1

Amounts == {10, 15}                        \* quote amounts in USDT
VenuePrices == {100, 50000}                \* what the ticker returns
StepSizes == {0, 100000, 10000000}         \* LOT_SIZE stepSize: none, 0.001, 0.1
MinQtys == {0, 100000, 10000000}           \* LOT_SIZE minQty: none, 0.001, 0.1
Percentages == {0, 5}
TickSize == 10                             \* PRICE_FILTER tickSize 0.1, in cents
HttpAnswers == {"ok", "status", "network"}
AdapterExchanges == {Binance, Bybit}

\* quantity = amount / current_price
Quantity(amount, current_price) == (amount * QtyScale) \div current_price

\* round(x, n) with 10^-n = unit: to the nearest multiple, ties to even.
Round(x, unit) ==
    LET q == x \div unit
        r == x % unit
    IN IF 2 * r > unit \/ (2 * r = unit /\ q % 2 = 1)
       THEN (q + 1) * unit
       ELSE q * unit

\* The loop "while temp_step < 1: temp_step *= 10; precision += 1", kept as
\* the unit 10^-precision that the result is rounded to.
RECURSIVE PrecisionUnit(_, _)
PrecisionUnit(temp_step, unit) ==
    IF temp_step < QtyScale
    THEN PrecisionUnit(temp_step * 10, unit \div 10)
    ELSE unit

\* BinanceService._round_quantity
round_quantity(quantity, step_size) ==
    IF step_size = 0
    THEN Round(quantity, 1)
    ELSE Round(quantity - (quantity % step_size),
               PrecisionUnit(step_size, QtyScale))

\* The trigger price of a take-profit order, in cents, before tick rounding.
AdapterTpPrice(entry_price, side, tp_percentage) ==
    IF upper(side) = "BUY"
    THEN entry_price * (100 + tp_percentage)
    ELSE entry_price * (100 - tp_percentage)

\* The trigger price of a stop-loss order, in cents, before tick rounding.
AdapterSlPrice(entry_price, side, sl_percentage) ==
    IF upper(side) = "BUY"
    THEN entry_price * (100 - sl_percentage)
    ELSE entry_price * (100 + sl_percentage)

\* close_side of _create_tp_sl_order
CloseSide(original_side) == IF upper(original_side) = "BUY" THEN "SELL" ELSE "BUY"

\* str.capitalize() of the sides a caller passes
capitalize(side) ==
    CASE upper(side) = "BUY" -> "Buy"
      [] upper(side) = "SELL" -> "Sell"
      [] upper(side) = "LONG" -> "Long"
      [] OTHER -> "Short"

\* A request sent to the exchange.
Request(kind, side, quantity, stop_price) ==
    [kind |-> kind, side |-> side, quantity |-> quantity,
     stop_price |-> stop_price]

IdleAd ==
    [pc |-> "idle", exchange |-> None, side |-> "", amount |-> 0,
     is_futures |-> FALSE, tp_percentage |-> 0, sl_percentage |-> 0,
     venue_price |-> 0, step_size |-> 0, min_qty |-> 0,
     quantity |-> 0, entry_price |-> 0,
     tp_order_id |-> FALSE, sl_order_id |-> FALSE,
     requests |-> <<>>, outcome |-> "", error |-> ""]

InitAd ==
    /\ ad = IdleAd
    /\ n_ad = 0

\* No Signal record is stored and nothing was broadcast.  (The only caller
\* of ConnectionManager.broadcast_signal is services/ema_monitor.py, a
\* module that nothing imports; the detector that the scheduler runs,
\* ema_monitor_firebase.py, does not call it.)
InitSig ==
    /\ ema_signals = <<>>
    /\ broadcasts = <<>>

----------------------------------------------------------------------------
(* EMAMonitorFirebase.calculate_ema (ema_monitor_firebase.py lines 45-231) *)

MaxCandles == 3
MaxEmaCalls == 1

\* calculate_ema takes any period; the detector passes 9 and 21.  The
\* periods here keep a series of MaxCandles candles on both sides of the
\* "len(closes) < period" test.
EmaPeriods == {2, 3}
ClosePrices == {10, 12}
EmaExchanges == SupportedExchanges \cup {Kraken}

\* A candle as the venues send it, [time, open, high, low, close] (the
\* format services/ema_monitor.py states at lines 143 and 171); Python's
\* candle[4] is the fifth element, candle[2] the third.
Candle(time, close) == <<time, close, close + 1, close - 1, close>>

\* The closes of a market, oldest first.
ChronologicalSeries == UNION {[1..n -> ClosePrices] : n \in 0..MaxCandles}

Reverse(seq) == [i \in 1..Len(seq) |-> seq[Len(seq) + 1 - i]]

\* The venues whose kline endpoint lists the newest candle first.
NewestFirst == {Bybit, Okx}

\* limit = period + 20
Limit(period) == period + 20

\* The candles a venue returns for a market: the latest limit ones, in the
\* venue's order.
VenueCandles(exchange_name, chronological, limit) ==
    LET all == [i \in DOMAIN chronological |-> Candle(i, chronological[i])]
        n == Len(all)
        latest == IF n <= limit THEN all
                  ELSE SubSeq(all, n - limit + 1, n)
    IN IF exchange_name \in NewestFirst THEN Reverse(latest) ELSE latest

\* The list "closes" that calculate_ema builds from the response of each
\* venue (lines 85, 106, 132, 164, 194).
closes_of(exchange_name, candles) ==
    CASE exchange_name = Binance ->
            [i \in DOMAIN candles |-> candles[i][5]]
      [] exchange_name \in {Bybit, Okx} ->
            Reverse([i \in DOMAIN candles |-> candles[i][5]])
      [] OTHER ->
            [i \in DOMAIN candles |-> candles[i][3]]

\* The loop "for close in closes[1:]: ema = (close - ema) * multiplier + ema"
\* with multiplier = 2 / (period + 1), on exact fractions <<numerator,
\* denominator>>: (close - ema) * 2/(p+1) + ema = (2*close + (p-1)*ema)/(p+1).
RECURSIVE ema_loop(_, _, _, _)
ema_loop(closes, i, ema, period) ==
    IF i > Len(closes) THEN ema
    ELSE ema_loop(closes, i + 1,
                  <<(period - 1) * ema[1] + 2 * closes[i] * ema[2],
                    ema[2] * (period + 1)>>,
                  period)

\* calculate_ema from the venue's answer to its return (lines 204-231).
ema_of(closes, period) ==
    IF Len(closes) < period THEN None
    ELSE Some(ema_loop(closes, 2, <<closes[1], 1>>, period))

IdleEma ==
    [pc |-> "idle", exchange |-> None, period |-> 0, chronological |-> <<>>,
     result |-> None, answer |-> ""]

InitEma ==
    /\ ema_call = IdleEma
    /\ n_ema = 0

----------------------------------------------------------------------------
(* TradeManager.close_position *)

\* The status of the user's Trade with this id, "" when there is none.
StatusOf(store, user_id, trade_id) ==
    LET found == SelectSeq(store, LAMBDA t : t.user = user_id
                                             /\ t.id = Some(trade_id))
    IN IF found = <<>> THEN "" ELSE found[1].status

\* ref.update(updates) on the path trades/{user_id}/{trade_id}: the fields of
\* updates are set in the node of that path, and a path that holds nothing
\* becomes a node with these fields alone (the other fields of the record
\* have their idle values here).
Updated(store, user_id, trade_id, updates) ==
    IF StatusOf(store, user_id, trade_id) # ""
    THEN [i \in DOMAIN store |->
             IF store[i].user = user_id /\ store[i].id = Some(trade_id)
             THEN [store[i] EXCEPT !.status = updates.status,
                                   !.closed_at = updates.closed_at]
             ELSE store[i]]
    ELSE Append(store,
                [TradeData([IdleCall EXCEPT !.user = user_id])
                    EXCEPT !.id = Some(trade_id), !.status = updates.status,
                           !.closed_at = updates.closed_at])

\* Mutant of update_trade: a failed update raises.
update_trade_Raises(user_id, trade_id, updates, update_ok) ==
    IF ~firebase_initialized \/ ~update_ok THEN <<trades, FALSE, TRUE>>
    ELSE <<Updated(trades, user_id, trade_id, updates), TRUE, FALSE>>

\* update_trade: <<the store afterwards, what it returns, whether it
\* raised>>.  It returns False when Firebase is not initialized and when the
\* update raises (update_ok = FALSE); it never raises.
update_trade(user_id, trade_id, updates, update_ok) ==
    IF ~firebase_initialized THEN <<trades, FALSE, FALSE>>
    ELSE IF ~update_ok THEN <<trades, FALSE, FALSE>>
    ELSE <<Updated(trades, user_id, trade_id, updates), TRUE, FALSE>>

\* close_position up to the await of the adapter's close_position (lines
\* 475-502); an exchange name outside the if/elif chain raises.
ClosePositionBegin(s, user_id, trade_id, exchange, symbol, is_futures) ==
    /\ co[s].pc = "idle"
    /\ LET exchange_name == Lower(exchange)
           c == [IdleCall EXCEPT !.user = user_id, !.exchange = exchange_name,
                    !.symbol = symbol, !.is_futures = is_futures,
                    !.call = next_id, !.trade_id = Some(trade_id),
                    !.before = StatusOf(trades, user_id, trade_id)]
       IN /\ next_id' = next_id + 1
          /\ IF exchange_name \in SupportedExchanges
             THEN /\ co' = [co EXCEPT ![s] = [c EXCEPT !.pc = "close"]]
                  /\ returns' = returns
             ELSE /\ co' = co
                  /\ Raise(s, c)
    /\ UNCHANGED <<firebase_initialized, trades, exchange_orders>>

\* What close_position does with the adapter's answer: an exception is
\* wrapped and raised (lines 513-515), a result lets it update the Trade.
AfterClose(adapter_ok) == IF adapter_ok THEN "update" ELSE "raise"

\* close_position from the adapter's answer to its end (lines 504-515).
ClosePositionAnswered(s, adapter_ok, update_ok) ==
    /\ co[s].pc = "close"
    /\ LET c == [co[s] EXCEPT !.n_adapter = @ + 1,
                    !.adapter_env = Env(adapter_ok),
                    !.save_env = IF adapter_ok
                                 THEN Env(firebase_initialized /\ update_ok)
                                 ELSE ""]
           updated == update_trade(c.user, c.trade_id[1],
                         [status |-> "closed", closed_at |-> Some(now)],
                         update_ok)
       IN IF AfterClose(adapter_ok) = "update"
          THEN /\ trades' = updated[1]
               /\ IF updated[3]
                  THEN Raise(s, c)
                  ELSE returns' = Append(returns,
                         Result(s, c, "returned", FALSE, c.trade_id, "close",
                                StatusOf(updated[1], c.user, c.trade_id[1]),
                                IF updated[2] THEN 1 ELSE 0))
          ELSE /\ Raise(s, c)
               /\ trades' = trades
    /\ co' = [co EXCEPT ![s] = IdleCall]
    /\ UNCHANGED <<firebase_initialized, exchange_orders, next_id>>

----------------------------------------------------------------------------
(* SpecTM: API callers calling create_order one call after the other *)

InitStore ==
    /\ trades = <<>>
    /\ exchange_orders = <<>>
    /\ returns = <<>>
    /\ next_id = 1

InitIdle ==
    /\ settings = [u \in Users |-> None]
    /\ api_keys = [u \in Users |-> {}]
    /\ now = 0
    /\ ema_cache = [k \in CacheKeys |-> None]
    /\ tasks = <<>>
    /\ monitoring_tasks = {}
    /\ active_monitors = {}
    /\ InitGw
    /\ InitAd
    /\ InitSig
    /\ InitEma
    /\ emergency_stopped = {}
    /\ running = FALSE
    /\ loops = <<>>

InitTM ==
    /\ firebase_initialized \in BOOLEAN
    /\ co = [s \in Slots |-> IdleCall]
    /\ InitStore
    /\ InitIdle

\* An API caller (api/positions.py) calls trade_manager.create_order.
ApiCreateOrderWith(s, users, sides, percentages) ==
    /\ Len(returns) < MaxCalls
    /\ \E user_id \in users, side \in sides,
          tp_percentage \in percentages, sl_percentage \in percentages,
          client_order_id \in {None} \cup {Some(k) : k \in ClientIds},
          lookup_ok \in BOOLEAN :
          CreateOrderBegin(s, user_id, Binance, SymS, side, TRUE,
                           tp_percentage, sl_percentage,
                           client_order_id, lookup_ok)
    /\ UNCHANGED <<envVars, detVars, schedVars, gwVars, adVars, sigVars, emaVars, stopVars, mgrVars>>

ApiCreateOrder(s) == ApiCreateOrderWith(s, Users, Sides, {DefaultTp})

ApiPriceFetchedWith(s, prices) ==
    /\ \E price_ok \in BOOLEAN, price \in prices :
          CreateOrderPrice(s, price_ok, price)
    /\ UNCHANGED <<envVars, detVars, schedVars, gwVars, adVars, sigVars, emaVars, stopVars, mgrVars>>

ApiPriceFetched(s) == ApiPriceFetchedWith(s, {DefaultPrice})

ApiAdapterAnswered(s) ==
    /\ \E adapter_ok, save_ok \in BOOLEAN :
          CreateOrderDispatch(s, adapter_ok, save_ok)
    /\ UNCHANGED <<envVars, detVars, schedVars, gwVars, adVars, sigVars, emaVars, stopVars, mgrVars>>

NextTM ==
    \E s \in ApiSlots :
        \/ ApiCreateOrder(s)
        \/ ApiPriceFetched(s)
        \/ ApiAdapterAnswered(s)

SpecTM == InitTM /\ [][NextTM]_vars

\* SpecOrderId: one create_order call whose adapter answers with any of the
\* results below, on a venue whose adapter is in src and on one whose
\* adapter is not.
MaxOidCalls == 1
OidExchanges == {Bybit, Okx}
Values(digit) == {Absent, Null, Str(<<>>), Num(<<digit>>)}
Nested(digit) ==
    {NoObject, NullObject, ListValue}
        \cup {Object(x) : x \in {Absent, Null, Str(<<digit>>)}}
Responses ==
    [orderId : Values("1"), order_id : Values("2"), id : Values("3"),
     data : Nested("4"), result : Nested("5")]

OidCreateOrder(s) ==
    /\ Len(returns) < MaxOidCalls
    /\ \E exchange \in OidExchanges :
          CreateOrderBegin(s, UserA, exchange, SymS, "BUY", TRUE,
                           DefaultTp, DefaultTp, None, TRUE)
    /\ UNCHANGED <<envVars, detVars, schedVars, gwVars, adVars, sigVars, emaVars, stopVars, mgrVars>>

OidAdapterAnswered(s) ==
    /\ \E adapter_ok, save_ok \in BOOLEAN, result \in Responses :
          CreateOrderDispatchWith(s, adapter_ok, result, save_ok)
    /\ UNCHANGED <<envVars, detVars, schedVars, gwVars, adVars, sigVars, emaVars, stopVars, mgrVars>>

NextOrderId ==
    \E s \in ApiSlots :
        \/ OidCreateOrder(s)
        \/ ApiPriceFetched(s)
        \/ OidAdapterAnswered(s)

SpecOrderId == InitTM /\ [][NextOrderId]_vars

\* SpecTrades: an API caller placing orders with any spelling of the side
\* and closing the positions of the Trades create_order returned to it,
\* with the trade id of the result (a uuid when the record was not saved).
ApiClosePosition(s) ==
    /\ Len(returns) < MaxCalls
    /\ \E i \in DOMAIN returns, exchange \in {Binance, Kraken} :
          /\ returns[i].outcome = "returned"
          /\ returns[i].target = None
          /\ ClosePositionBegin(s, returns[i].user, returns[i].trade_id[1],
                                exchange, returns[i].symbol,
                                returns[i].is_futures)
    /\ UNCHANGED <<envVars, detVars, schedVars, gwVars, adVars, sigVars, emaVars, stopVars, mgrVars>>

ApiCloseAnswered(s) ==
    /\ \E adapter_ok, update_ok \in BOOLEAN :
          ClosePositionAnswered(s, adapter_ok, update_ok)
    /\ UNCHANGED <<envVars, detVars, schedVars, gwVars, adVars, sigVars, emaVars, stopVars, mgrVars>>

NextTrades ==
    \E s \in ApiSlots :
        \/ ApiCreateOrderWith(s, {UserA}, RequestSides, Percentages)
        \/ ApiPriceFetchedWith(s, VenuePrices)
        \/ ApiAdapterAnswered(s)
        \/ ApiClosePosition(s)
        \/ ApiCloseAnswered(s)

SpecTrades == InitTM /\ [][NextTrades]_vars

----------------------------------------------------------------------------
(* EMAMonitorFirebase: the EMA cache and the crossover test *)

\* Largest EMA value of the model; EMAs of venue prices are positive.
MaxEma == 2
EmaValues == 1..MaxEma
\* The clock runs up to MaxHours times the cache's time to live
MaxHours == 1
\* get_previous_ema: "Cache valid for 1 hour"
CacheTtl == 3600
\* The clock advances to just before or to exactly a time to live later.
TimeSteps == {CacheTtl - 1, CacheTtl}

\* Mutant of get_previous_ema: the age of the cached value is not looked at.
get_previous_ema_AnyAge(user_id, symbol, interval, period) ==
    IF ~firebase_initialized THEN None
    ELSE LET data == ema_cache[<<user_id, symbol, interval, period>>]
         IN IF data # None THEN Some(data[1].value) ELSE None

\* get_previous_ema: None when Firebase is not initialized, when nothing is
\* cached and when the cached value is an hour old or older.  The store
\* answers every read and write of the cache.
get_previous_ema(user_id, symbol, interval, period) ==
    IF ~firebase_initialized THEN None
    ELSE LET data == ema_cache[<<user_id, symbol, interval, period>>]
         IN IF data # None /\ now - data[1].timestamp < CacheTtl
            THEN Some(data[1].value)
            ELSE None

\* Mutant of store_ema: nothing is written.
store_ema_Skipped(cache, user_id, symbol, interval, period, value) == cache

\* store_ema: the cache after ref.set({'value', 'timestamp'}).
store_ema(cache, user_id, symbol, interval, period, value) ==
    IF ~firebase_initialized THEN cache
    ELSE [cache EXCEPT ![<<user_id, symbol, interval, period>>] =
              Some([value |-> value, timestamp |-> now])]

\* Python truth value of an Optional[float]: None and 0.0 are false.
\* The cache holds an EMA9 and an EMA21 of the key that are younger than the
\* time to live.
FreshPair(user_id, symbol, interval) ==
    \A period \in Periods :
        LET data == ema_cache[<<user_id, symbol, interval, period>>]
        IN data # None /\ now - data[1].timestamp < CacheTtl

\* The cache holds an EMA9 or an EMA21 of the key whose timestamp is a time
\* to live old or older.
StalePair(user_id, symbol, interval) ==
    /\ firebase_initialized
    /\ \E period \in Periods :
          LET data == ema_cache[<<user_id, symbol, interval, period>>]
          IN data # None /\ now - data[1].timestamp >= CacheTtl

\* Python's truth value of an Optional[float]: None and 0.0 are false.
Truthy(x) == x # None /\ x[1] # 0

\* Mutant of CrossoverSignal: the comparisons admit equality.
CrossoverSignal_NotStrict(previous_ema9, previous_ema21, ema9, ema21) ==
    IF Truthy(previous_ema9) /\ Truthy(previous_ema21)
    THEN IF previous_ema9[1] <= previous_ema21[1] /\ ema9 >= ema21
         THEN "BULLISH"
         ELSE IF previous_ema9[1] >= previous_ema21[1] /\ ema9 <= ema21
              THEN "BEARISH"
              ELSE ""
    ELSE ""

\* check_ema_signal, lines 334-352: the direction, "" for Python's None.
CrossoverSignal(previous_ema9, previous_ema21, ema9, ema21) ==
    IF Truthy(previous_ema9) /\ Truthy(previous_ema21)
    THEN IF previous_ema9[1] < previous_ema21[1] /\ ema9 > ema21
         THEN "BULLISH"
         ELSE IF previous_ema9[1] > previous_ema21[1] /\ ema9 < ema21
              THEN "BEARISH"
              ELSE ""
    ELSE ""

----------------------------------------------------------------------------
(* EMAMonitorFirebase: the detector task *)

\* Ticks (iterations of monitor_symbol's loop) begun in one behaviour
MaxTicks == 1
\* execute_auto_trade: get_user_trades(user_id, status='open', limit=100)
OpenTradesLimit == 100
TradeTypes == {"spot", "futures"}

\* The last n elements of a sequence (Firebase limit_to_last).
LastN(seq, n) ==
    IF Len(seq) <= n THEN seq ELSE SubSeq(seq, Len(seq) - n + 1, Len(seq))

\* get_user_trades: the user's Trades with the given status, at most the
\* last `limit` of them in key order; the empty list when Firebase is not
\* initialized and when the query raises (read_ok = FALSE).
get_user_trades(user_id, status, limit, read_ok) ==
    IF ~firebase_initialized \/ ~read_ok THEN <<>>
    ELSE LastN(SelectSeq(trades, LAMBDA t : t.user = user_id
                                            /\ t.status = status), limit)

\* execute_auto_trade, lines 462-469: the test "user already has an open
\* position for this symbol" over the Trades the query returned.
HasOpenPosition(existing_trades, exchange, symbol, is_futures) ==
    \E i \in DOMAIN existing_trades :
        /\ existing_trades[i].symbol = symbol
        /\ existing_trades[i].exchange = exchange
        /\ existing_trades[i].is_futures = is_futures

\* firebase_admin.get_user_api_keys(user_id, exchange) is not None
HasApiKeys(user_id, exchange) ==
    firebase_initialized /\ exchange \in api_keys[user_id]

\* execute_auto_trade, lines 431-455
IsFutures(trade_type) == trade_type = "futures"
SideOf(signal) == IF signal = "BULLISH" THEN "BUY" ELSE "SELL"

\* monitor_symbol, lines 590-601: the trade type is enabled in the tick's
\* settings and the symbol is in its watchlist.
TypeWanted(trading_settings, trade_type, symbol) ==
    IF trade_type = "spot"
    THEN trading_settings.spot_enabled
         /\ symbol \in trading_settings.spot_watchlist
    ELSE trading_settings.futures_enabled
         /\ symbol \in trading_settings.futures_watchlist

\* The asyncio task start_monitoring creates for monitor_symbol.  ticks
\* counts the task's ticks; fresh_pair, detected, invoked, wanted,
\* and open_seen record what its last tick found and did; blind_calls are
\* the create_order calls it made after a pre-check whose query raised
\* while an open Trade for the key was stored.
NewTask(user_id, exchange, symbol, interval) ==
    [user |-> user_id, exchange |-> exchange, symbol |-> symbol,
     interval |-> interval, state |-> "running", pc |-> "start", ticks |-> 0,
     trading_settings |-> None, ema9 |-> None, ema21 |-> None,
     previous_ema9 |-> None, previous_ema21 |-> None, signal |-> "",
     fresh_pair |-> FALSE, detected |-> FALSE, invoked |-> <<>>,
     wanted |-> [ty \in TradeTypes |-> FALSE],
     open_seen |-> [ty \in TradeTypes |-> "unchecked"], error |-> "",
     computed |-> FALSE, blind_calls |-> {}, stale |-> FALSE]

\* The locals of a tick are gone when the tick is over.
DropLocals(k) ==
    [k EXCEPT !.trading_settings = None, !.ema9 = None, !.ema21 = None,
              !.previous_ema9 = None, !.previous_ema21 = None]

\* The task moves on to pc; "sleep" is the sleep that ends a tick.
Goto(k, pc) ==
    IF pc = "sleep" THEN [DropLocals(k) EXCEPT !.pc = pc]
    ELSE [k EXCEPT !.pc = pc]

\* Mutant of TickFailed: the exception ends the task.
TickFailed_Fatal(k, step) ==
    [DropLocals(k) EXCEPT !.error = step, !.state = "done"]

\* check_ema_signal and execute_auto_trade catch every Exception of their
\* bodies and return None / False (lines 381-383, 519-521): the tick goes on
\* as after a call that found nothing; error records the failed step.
Swallowed(k, step) == [k EXCEPT !.error = step]

\* "except Exception" of the loop body (lines 606-607) logs, and the sleep
\* of line 610 follows; error records the step of the tick that failed.
TickFailed(k, step) ==
    Goto([k EXCEPT !.error = step], "sleep")

RECURSIVE SumTicks(_)
SumTicks(n) == IF n = 0 THEN 0 ELSE tasks[n].ticks + SumTicks(n - 1)
TotalTicks == SumTicks(Len(tasks))

\* Mutant of Runnable: a task that was cancelled or has returned still gets
\* its turns.
Runnable_Any(t) == t \in DOMAIN tasks

\* The event loop resumes a task at its await only while the task has
\* neither returned nor been cancelled (CancelledError is raised at the
\* await and re-raised by lines 603-605, 612-613).
Runnable(t) == t \in DOMAIN tasks /\ tasks[t].state = "running"

\* Mutant of MonitoringDisabled: the loop never breaks.
MonitoringDisabled_Never(trading_settings) == FALSE

\* monitor_symbol, lines 571-574: "if not spot_enabled and not
\* futures_enabled" on the settings the tick has read.
MonitoringDisabled(trading_settings) ==
    ~trading_settings[1].spot_enabled /\ ~trading_settings[1].futures_enabled

\* str.startswith
StartsWith(str, prefix) ==
    Len(str) >= Len(prefix) /\ SubSeq(str, 1, Len(prefix)) = prefix

\* f"{user_id}_{exchange}_{symbol}"
task_key(user_id, exchange, symbol) ==
    user_id \o <<"_">> \o exchange \o <<"_">> \o symbol

\* The dict monitoring_tasks is a set of <<key, task>> pairs with one pair
\* per key; a task is its index in tasks.
Keys(reg) == {p[1] : p \in reg}
TaskOf(reg, key) == (CHOOSE p \in reg : p[1] = key)[2]

\* task.cancel(): a task that has finished is left as it is.
Cancel(tks, ids) ==
    [i \in DOMAIN tks |->
        IF i \in ids /\ tks[i].state = "running"
        THEN [DropLocals(tks[i]) EXCEPT !.state = "cancelled"]
        ELSE tks[i]]

\* start_monitoring on the registry and task list st = [reg, tks].
start_monitoring(st, user_id, config) ==
    LET key == task_key(user_id, config.exchange, config.symbol)
    IN IF key \in Keys(st.reg)
       THEN st
       ELSE [reg |-> st.reg \cup {<<key, Len(st.tks) + 1>>},
             tks |-> Append(st.tks, NewTask(user_id, config.exchange,
                                            config.symbol, config.interval))]

\* stop_monitoring
stop_monitoring(st, user_id, exchange, symbol) ==
    LET key == task_key(user_id, exchange, symbol)
    IN IF key \in Keys(st.reg)
       THEN [reg |-> {p \in st.reg : p[1] # key},
             tks |-> Cancel(st.tks, {TaskOf(st.reg, key)})]
       ELSE st

\* stop_all_monitoring
stop_all_monitoring(st, user_id) ==
    LET keys_to_remove == {p \in st.reg : StartsWith(p[1], user_id)}
    IN [reg |-> st.reg \ keys_to_remove,
        tks |-> Cancel(st.tks, {p[2] : p \in keys_to_remove})]

\* An open Trade for the key is in the store.
OpenTradeExists(user_id, exchange, symbol, is_futures) ==
    \E i \in DOMAIN trades :
        /\ trades[i].user = user_id /\ trades[i].status = "open"
        /\ trades[i].exchange = exchange /\ trades[i].symbol = symbol
        /\ trades[i].is_futures = is_futures

\* monitor_symbol from its start, or from the end of a sleep, to the first
\* await of the tick (lines 541-584): the credentials are read once at the
\* start, the settings at the start of every tick.
TaskRun(t) ==
    /\ Runnable(t)
    /\ tasks[t].pc \in {"start", "sleep"}
    /\ LET k == tasks[t]
           trading_settings ==
               IF firebase_initialized THEN settings[k.user] ELSE None
           tick == [k EXCEPT !.ticks = @ + 1,
                       !.trading_settings = trading_settings,
                       !.ema9 = None, !.ema21 = None,
                       !.previous_ema9 = None, !.previous_ema21 = None,
                       !.signal = "", !.fresh_pair = FALSE,
                       !.detected = FALSE, !.invoked = <<>>,
                       !.wanted = [ty \in TradeTypes |-> FALSE],
                       !.open_seen = [ty \in TradeTypes |-> "unchecked"],
                       !.error = "", !.computed = FALSE, !.stale = FALSE]
       IN IF k.pc = "start" /\ ~HasApiKeys(k.user, k.exchange)
          THEN tasks' = [tasks EXCEPT ![t].state = "done"]
          ELSE /\ TotalTicks < MaxTicks
               /\ \E read_ok \in BOOLEAN :
                     tasks' = [tasks EXCEPT ![t] =
                        IF firebase_initialized /\ ~read_ok
                        THEN TickFailed([tick EXCEPT !.trading_settings = None],
                                        "settings")
                        ELSE IF trading_settings = None
                        THEN Goto(tick, "sleep")
                        ELSE IF MonitoringDisabled(trading_settings)
                             THEN [DropLocals(tick) EXCEPT !.state = "done"]
                             ELSE Goto(tick, "ema9")]
    /\ UNCHANGED <<tmVars, envVars, ema_cache, monitoring_tasks, schedVars, gwVars, adVars, sigVars, emaVars, stopVars, mgrVars>>

\* check_ema_signal: calculate_ema(9) answers (lines 315-317); None when the
\* klines could not be fetched.
TickEma9(t) ==
    /\ Runnable(t)
    /\ tasks[t].pc = "ema9"
    /\ \E ema9 \in {None} \cup {Some(v) : v \in EmaValues} :
          tasks' = [tasks EXCEPT ![t].ema9 = ema9, ![t].pc = "ema21"]
    /\ UNCHANGED <<tmVars, envVars, ema_cache, monitoring_tasks, schedVars, gwVars, adVars, sigVars, emaVars, stopVars, mgrVars>>

\* check_ema_signal from the answer of calculate_ema(21) to the price fetch
\* (lines 318-355): the previous pair is read, the current pair is stored
\* and the crossover test is made.
TickEma21(t) ==
    /\ Runnable(t)
    /\ tasks[t].pc = "ema21"
    /\ \E ema21 \in {None} \cup {Some(v) : v \in EmaValues} :
          LET k == tasks[t]
              previous_ema9 == get_previous_ema(k.user, k.symbol, k.interval, 9)
              previous_ema21 == get_previous_ema(k.user, k.symbol, k.interval, 21)
          IN IF k.ema9 = None \/ ema21 = None
             THEN /\ tasks' = [tasks EXCEPT ![t] =
                                  Goto(Swallowed(k, "candles"), "sleep")]
                  /\ ema_cache' = ema_cache
             ELSE /\ tasks' = [tasks EXCEPT ![t].ema21 = ema21,
                         ![t].computed = TRUE,
                         ![t].previous_ema9 = previous_ema9,
                         ![t].previous_ema21 = previous_ema21,
                         ![t].fresh_pair = FreshPair(k.user, k.symbol,
                                                     k.interval),
                         ![t].stale = StalePair(k.user, k.symbol, k.interval),
                         ![t].signal = CrossoverSignal(previous_ema9,
                                 previous_ema21, k.ema9[1], ema21[1]),
                         ![t].pc = "price"]
                  /\ ema_cache' = store_ema(
                         store_ema(ema_cache, k.user, k.symbol, k.interval,
                                   9, k.ema9[1]),
                         k.user, k.symbol, k.interval, 21, ema21[1])
    /\ UNCHANGED <<tmVars, envVars, monitoring_tasks, schedVars, gwVars, adVars, sigVars, emaVars, stopVars, mgrVars>>

\* check_ema_signal from the answer of get_current_price to its return, and
\* monitor_symbol's test of the result (lines 357-386, 586-587): a failed
\* price fetch makes check_ema_signal return None.
TickPrice(t) ==
    /\ Runnable(t)
    /\ tasks[t].pc = "price"
    /\ \E price_ok \in BOOLEAN :
          LET detected == price_ok /\ tasks[t].signal # ""
              k == IF price_ok THEN tasks[t]
                   ELSE Swallowed(tasks[t], "price")
          IN tasks' = [tasks EXCEPT ![t] =
                    Goto([k EXCEPT !.detected = detected],
                         IF detected THEN "spot" ELSE "sleep")]
    /\ UNCHANGED <<tmVars, envVars, ema_cache, monitoring_tasks, schedVars, gwVars, adVars, sigVars, emaVars, stopVars, mgrVars>>

\* The Signal record execute_auto_trade pushes once create_order has
\* returned (lines 502-515); task and tick tell which tick pushed it.
SignalRecord(t, k, trade_type) ==
    [user |-> k.user, exchange |-> k.exchange, symbol |-> k.symbol,
     signal |-> k.signal, trade_type |-> trade_type, action_taken |-> TRUE,
     task |-> t, tick |-> k.ticks]

\* signal_ref.push (lines 503-515): skipped when the store is not
\* initialized; a push that raises leaves the store as it was.
push_signal(signals, record, push_ok) ==
    IF firebase_initialized /\ push_ok THEN Append(signals, record)
    ELSE signals

\* The branch that follows a trade type's branch in monitor_symbol.
NextPc(trade_type) == IF trade_type = "spot" THEN "futures" ELSE "sleep"

\* monitor_symbol's branch for one trade type with execute_auto_trade up to
\* create_order's first await (lines 589-601, 405-493).  The pcs "spot" and
\* "futures" are positions inside one uninterrupted run of the task: while
\* a task is at one of them no other process takes a step (see MidStep).
TickTrade(t) ==
    /\ Runnable(t)
    /\ tasks[t].pc \in TradeTypes
    /\ \E read_ok, lookup_ok, push_ok \in BOOLEAN :
          LET k == tasks[t]
              trade_type == k.pc
              is_futures == IsFutures(trade_type)
              side == SideOf(k.signal)
              existing_trades ==
                  get_user_trades(k.user, "open", OpenTradesLimit, read_ok)
              seen == [k EXCEPT !.wanted[trade_type] =
                          TypeWanted(k.trading_settings[1], trade_type,
                                     k.symbol),
                          !.open_seen[trade_type] =
                          IF OpenTradeExists(k.user, k.exchange, k.symbol,
                                             is_futures)
                          THEN "open" ELSE "none"]
          IN IF /\ TypeWanted(k.trading_settings[1], trade_type, k.symbol)
                /\ HasApiKeys(k.user, k.exchange)
                /\ ~HasOpenPosition(existing_trades, k.exchange, k.symbol,
                                    is_futures)
             THEN /\ CreateOrderBegin(t, k.user, k.exchange, k.symbol, side,
                                      is_futures, DefaultTp, DefaultSl,
                                      None, lookup_ok)
                  /\ tasks' = [tasks EXCEPT ![t] =
                        Goto([seen EXCEPT !.invoked =
                                 Append(@, [type |-> trade_type,
                                            side |-> side]),
                                 !.blind_calls =
                                 IF /\ ~read_ok
                                    /\ OpenTradeExists(k.user, k.exchange,
                                                       k.symbol, is_futures)
                                 THEN @ \cup {next_id} ELSE @],
                             IF co'[t].pc = "idle" THEN NextPc(trade_type)
                             ELSE IF is_futures THEN "co_futures"
                             ELSE "co_spot")]
                  /\ ema_signals' =
                        IF co'[t].pc = "idle"
                        THEN push_signal(ema_signals,
                                SignalRecord(t, k, trade_type), push_ok)
                        ELSE ema_signals
             ELSE /\ tasks' = [tasks EXCEPT ![t] =
                                  Goto(seen, NextPc(trade_type))]
                  /\ UNCHANGED <<tmVars, ema_signals>>
    /\ UNCHANGED <<envVars, ema_cache, monitoring_tasks, schedVars, gwVars, adVars, broadcasts, emaVars, stopVars, mgrVars>>

\* Where the task goes on when its create_order call has ended, by a return
\* or by an exception (execute_auto_trade, lines 495-521, returns either way).
AfterOrder(k, call) ==
    IF call.pc # "idle" THEN k
    ELSE Goto(k, IF k.pc = "co_spot" THEN NextPc("spot")
                 ELSE NextPc("futures"))

\* The create_order call of the task ended by raising.
OrderRaised(call, rets) ==
    /\ call.pc = "idle"
    /\ rets # <<>>
    /\ rets[Len(rets)].outcome = "ExchangeError"

\* The task's create_order call gets the price fetch's answer.
TickOrderPrice(t) ==
    /\ Runnable(t)
    /\ tasks[t].pc \in {"co_spot", "co_futures"}
    /\ \E price_ok \in BOOLEAN : CreateOrderPrice(t, price_ok, DefaultPrice)
    /\ tasks' = [tasks EXCEPT ![t] =
                    AfterOrder(IF OrderRaised(co'[t], returns')
                               THEN Swallowed(@, "order") ELSE @, co'[t])]
    /\ UNCHANGED <<envVars, ema_cache, monitoring_tasks, schedVars, gwVars, adVars, sigVars, emaVars, stopVars, mgrVars>>

\* The task's create_order call gets the adapter's answer.
TickOrderDispatch(t) ==
    /\ Runnable(t)
    /\ tasks[t].pc \in {"co_spot", "co_futures"}
    /\ \E adapter_ok, save_ok, push_ok \in BOOLEAN :
          /\ CreateOrderDispatch(t, adapter_ok, save_ok)
          /\ IF OrderRaised(co'[t], returns')
             THEN /\ tasks' = [tasks EXCEPT ![t] =
                        AfterOrder(Swallowed(@, "order"), co'[t])]
                  /\ ema_signals' = ema_signals
             ELSE /\ tasks' = [tasks EXCEPT ![t] =
                        AfterOrder(IF firebase_initialized /\ ~push_ok
                                   THEN Swallowed(@, "signal") ELSE @,
                                   co'[t])]
                  /\ ema_signals' = push_signal(ema_signals,
                        SignalRecord(t, tasks[t],
                                     IF tasks[t].pc = "co_spot" THEN "spot"
                                     ELSE "futures"),
                        push_ok)
    /\ UNCHANGED <<envVars, ema_cache, monitoring_tasks, schedVars, gwVars, adVars, broadcasts, emaVars, stopVars, mgrVars>>

\* A task is between two of its awaits.
MidStep == \E t \in DOMAIN tasks : Runnable(t) /\ tasks[t].pc \in TradeTypes

----------------------------------------------------------------------------
(* AutoTradingManager: the scheduler *)

\* Index of the first occurrence of character ch in str, 0 if there is none.
RECURSIVE FindFrom(_, _, _)
FindFrom(str, ch, i) ==
    IF i > Len(str) THEN 0
    ELSE IF str[i] = ch THEN i ELSE FindFrom(str, ch, i + 1)

\* str.split(sep, 1)[1] for a str that contains sep
SplitOnce1(str, sep) == SubSeq(str, FindFrom(str, sep, 1) + 1, Len(str))

\* str.replace(old, ""): every occurrence of old is removed, left to right.
RECURSIVE Remove(_, _)
Remove(str, old) ==
    IF Len(str) < Len(old) \/ str = <<>> THEN str
    ELSE IF StartsWith(str, old)
         THEN Remove(SubSeq(str, Len(old) + 1, Len(str)), old)
         ELSE <<str[1]>> \o Remove(SubSeq(str, 2, Len(str)), old)

\* f"{user_id}_"
UserPrefix(user_id) == user_id \o <<"_">>
\* f"{user_id}_{symbol}"
monitor_key(user_id, symbol) == UserPrefix(user_id) \o symbol

\* sync_user_monitors, lines 55-60
symbols_to_monitor(us) ==
    (IF us.spot_enabled THEN us.spot_watchlist ELSE {})
    \cup (IF us.futures_enabled THEN us.futures_watchlist ELSE {})

\* sync_user_monitors, lines 69-82, on sch = [reg, tks, act]: a monitor is
\* started for every symbol whose key is not in active_monitors.
RECURSIVE StartEach(_, _, _, _)
StartEach(sch, user_id, us, symbols) ==
    IF symbols = {} THEN sch
    ELSE LET symbol == CHOOSE x \in symbols : TRUE
             st == [reg |-> sch.reg, tks |-> sch.tks]
             started ==
                 IF monitor_key(user_id, symbol) \in sch.act THEN st
                 ELSE start_monitoring(st, user_id,
                          [exchange |-> us.exchange, symbol |-> symbol,
                           interval |-> us.interval])
         IN StartEach([reg |-> started.reg, tks |-> started.tks,
                       act |-> sch.act \cup {monitor_key(user_id, symbol)}],
                      user_id, us, symbols \ {symbol})

\* sync_user_monitors, lines 84-99: the user's keys whose symbol left the
\* watchlists are stopped, on the exchange of the current settings.
RECURSIVE StopEach(_, _, _, _)
StopEach(sch, user_id, us, user_monitors) ==
    IF user_monitors = {} THEN sch
    ELSE LET key == CHOOSE x \in user_monitors : TRUE
             symbol == SplitOnce1(key, "_")
             symbol_only == Remove(key, UserPrefix(user_id))
             st == [reg |-> sch.reg, tks |-> sch.tks]
             stopped == stop_monitoring(st, user_id, us.exchange, symbol_only)
             next == IF symbol \in symbols_to_monitor(us) THEN sch
                     ELSE [reg |-> stopped.reg, tks |-> stopped.tks,
                           act |-> sch.act \ {key}]
         IN StopEach(next, user_id, us, user_monitors \ {key})

\* sync_user_monitors
sync_user_monitors(sch, user_id, us) ==
    IF ~HasApiKeys(user_id, us.exchange) THEN sch
    ELSE LET started == StartEach(sch, user_id, us, symbols_to_monitor(us))
             user_monitors == {key \in started.act :
                                  StartsWith(key, UserPrefix(user_id))}
         IN StopEach(started, user_id, us, user_monitors)

\* check_all_users, lines 128-147, for one user: the user's monitors are
\* synced, or all of them stopped when both trade types are disabled.
check_user(sch, user_id) ==
    LET us == settings[user_id][1]
        user_monitors == {key \in sch.act :
                             StartsWith(key, UserPrefix(user_id))}
        st == stop_all_monitoring([reg |-> sch.reg, tks |-> sch.tks],
                                  user_id)
    IN IF us.spot_enabled \/ us.futures_enabled
       THEN sync_user_monitors(sch, user_id, us)
       ELSE IF user_monitors # {}
            THEN [reg |-> st.reg, tks |-> st.tks,
                  act |-> sch.act \ user_monitors]
            ELSE sch

\* check_all_users, lines 128-147: the users that have settings, one after
\* the other.
RECURSIVE CheckEach(_, _)
CheckEach(sch, user_ids) ==
    IF user_ids = {} THEN sch
    ELSE LET user_id == CHOOSE x \in user_ids : TRUE
         IN CheckEach(check_user(sch, user_id), user_ids \ {user_id})

\* One reconciliation cycle: check_all_users (lines 104-157).  Nothing in
\* it suspends, so a cycle is one step.
check_all_users ==
    /\ LET sch == [reg |-> monitoring_tasks, tks |-> tasks,
                   act |-> active_monitors]
           done == IF ~firebase_initialized THEN sch
                   ELSE CheckEach(sch, {u \in DOMAIN settings :
                                            settings[u] # None})
       IN /\ Len(done.tks) <= MaxTasks
          /\ monitoring_tasks' = done.reg
          /\ tasks' = done.tks
          /\ active_monitors' = done.act
    /\ UNCHANGED <<tmVars, envVars, ema_cache, gwVars, adVars, sigVars, emaVars, stopVars>>

\* One cycle of the reconciliation loop, the loop itself left aside.
Reconcile == check_all_users /\ UNCHANGED mgrVars

----------------------------------------------------------------------------
(* The users and the clock *)

SettingsRecord(exchange, interval, spot_enabled, futures_enabled, spot_watchlist, futures_watchlist) ==
    [exchange |-> exchange, interval |-> interval,
     spot_enabled |-> spot_enabled, futures_enabled |-> futures_enabled,
     spot_watchlist |-> spot_watchlist,
     futures_watchlist |-> futures_watchlist]

\* The defaults the readers of trading_settings use for missing fields.
DefaultSettings == SettingsRecord(Binance, "15m", FALSE, FALSE, {}, {})

\* POST /settings: enabling a trade type needs credentials for the exchange.
SaveSettings(user_id, new) ==
    /\ firebase_initialized
    /\ (new.spot_enabled \/ new.futures_enabled)
          => HasApiKeys(user_id, new.exchange)
    /\ settings[user_id] # Some(new)
    /\ settings' = [settings EXCEPT ![user_id] = Some(new)]
    /\ emergency_stopped' = IF new.spot_enabled \/ new.futures_enabled
                            THEN emergency_stopped \ {user_id}
                            ELSE emergency_stopped
    /\ UNCHANGED <<tmVars, api_keys, now, detVars, schedVars, gwVars, adVars, sigVars, emaVars, mgrVars>>

\* POST /stop: both trade types are switched off in the stored settings.
StopAutoTrading(user_id) ==
    /\ firebase_initialized
    /\ LET old == IF settings[user_id] = None THEN DefaultSettings
                  ELSE settings[user_id][1]
           new == [old EXCEPT !.spot_enabled = FALSE,
                              !.futures_enabled = FALSE]
       IN /\ settings[user_id] # Some(new) \/ user_id \notin emergency_stopped
          /\ settings' = [settings EXCEPT ![user_id] = Some(new)]
    /\ emergency_stopped' = emergency_stopped \cup {user_id}
    /\ UNCHANGED <<tmVars, api_keys, now, detVars, schedVars, gwVars, adVars, sigVars, emaVars, mgrVars>>

\* POST /user/api-keys: save_user_api_keys
SaveApiKeys(user_id, exchange) ==
    /\ firebase_initialized
    /\ exchange \notin api_keys[user_id]
    /\ api_keys' = [api_keys EXCEPT ![user_id] = @ \cup {exchange}]
    /\ UNCHANGED <<tmVars, settings, now, detVars, schedVars, gwVars, adVars, sigVars, emaVars, stopVars, mgrVars>>

\* DELETE /user/api-keys/{exchange}: delete_user_api_keys
DeleteApiKeys(user_id, exchange) ==
    /\ firebase_initialized
    /\ exchange \in api_keys[user_id]
    /\ api_keys' = [api_keys EXCEPT ![user_id] = @ \ {exchange}]
    /\ UNCHANGED <<tmVars, settings, now, detVars, schedVars, gwVars, adVars, sigVars, emaVars, stopVars, mgrVars>>

\* time.time() advances.
TimePasses ==
    /\ \E d \in TimeSteps :
          /\ now + d <= MaxHours * CacheTtl
          /\ now' = now + d
    /\ UNCHANGED <<tmVars, settings, api_keys, detVars, schedVars, gwVars, adVars, sigVars, emaVars, stopVars, mgrVars>>

----------------------------------------------------------------------------
(* SpecDet: one user's detector tasks, started and stopped by the         *)
(* scheduler, ticking and auto-trading on Binance                         *)

KeyTrade(n, symbol) ==
    [id |-> <<"push", n>>, user |-> UserA,
     client_order_id |-> generate_client_order_id(n), exchange |-> Binance,
     symbol |-> symbol, side |-> "BUY", is_futures |-> TRUE,
     status |-> "open", call |-> n, tp_above |-> TRUE, closed_at |-> None,
     entry_price |-> DefaultPrice,
     tp_price |-> tp_price(DefaultPrice, "BUY", DefaultTp),
     sl_price |-> sl_price(DefaultPrice, "BUY", DefaultSl),
     tp_percentage |-> DefaultTp, sl_percentage |-> DefaultSl]

\* Trades the store holds when the process starts: none; one open futures
\* Trade on the monitored symbol; that Trade followed by OpenTradesLimit
\* newer open Trades, each on a symbol of its own.
InitialStores ==
    {<<>>, <<KeyTrade(-1, SymS)>>,
     <<KeyTrade(-1, SymS)>>
        \o [i \in 1..OpenTradesLimit |-> KeyTrade(-1 - i, <<"F", i>>)]}

\* The settings the user saves: each trade type on or off with the symbol
\* on its watchlist, and futures on with an empty watchlist.
DetSettings ==
    {SettingsRecord(Binance, "15m", se, fe, {SymS}, {SymS}) :
        se \in BOOLEAN, fe \in BOOLEAN}
    \cup {SettingsRecord(Binance, "15m", TRUE, TRUE, {SymS}, {})}

CachedPair(ema9, ema21) ==
    [k \in CacheKeys |->
        IF k = <<UserA, SymS, "15m", 9>>
        THEN Some([value |-> ema9, timestamp |-> 0])
        ELSE IF k = <<UserA, SymS, "15m", 21>>
             THEN Some([value |-> ema21, timestamp |-> 0])
             ELSE None]

\* EMAs the cache holds when the process starts: none, or a pair a task of
\* an earlier process stored.
InitialCaches ==
    {[k \in CacheKeys |-> None], CachedPair(1, 2), CachedPair(2, 1)}

InitDet ==
    /\ firebase_initialized \in BOOLEAN
    /\ co = [s \in Slots |-> IdleCall]
    /\ trades \in InitialStores
    /\ exchange_orders = <<>>
    /\ returns = <<>>
    /\ next_id = 1
    /\ settings = [u \in Users |-> None]
    /\ api_keys = [u \in Users |-> IF u = UserA THEN {Binance} ELSE {}]
    /\ now = 0
    /\ ema_cache \in InitialCaches
    /\ tasks = <<>>
    /\ monitoring_tasks = {}
    /\ active_monitors = {}
    /\ InitGw
    /\ InitAd
    /\ InitSig
    /\ InitEma
    /\ emergency_stopped = {}
    /\ running = FALSE
    /\ loops = <<>>

NextDet ==
    \/ \E t \in TaskIds : TickTrade(t)
    \/ ~MidStep /\ \E new \in DetSettings : SaveSettings(UserA, new)
    \/ ~MidStep /\ TimePasses
    \/ ~MidStep /\ Reconcile
    \/ ~MidStep /\ \E t \in TaskIds : TaskRun(t)
    \/ ~MidStep /\ \E t \in TaskIds : TickEma9(t)
    \/ ~MidStep /\ \E t \in TaskIds : TickEma21(t)
    \/ ~MidStep /\ \E t \in TaskIds : TickPrice(t)
    \/ ~MidStep /\ \E t \in TaskIds : TickOrderPrice(t)
    \/ ~MidStep /\ \E t \in TaskIds : TickOrderDispatch(t)

SpecDet == InitDet /\ [][NextDet]_vars

\* SpecStop: the detector of SpecDet and a user who can press the emergency
\* stop while the task is between two awaits.
NextStop ==
    \/ NextDet
    \/ ~MidStep /\ StopAutoTrading(UserA)

SpecStop == InitDet /\ [][NextStop]_vars

----------------------------------------------------------------------------
(* SpecRace: two HTTP requests calling create_order at the same time,     *)
(* next to the detector of SpecDet                                        *)

\* The store is empty when the process starts, the EMA cache holds a pair.
InitRace ==
    /\ InitDet
    /\ trades = <<>>
    /\ ema_cache \in InitialCaches \ {[k \in CacheKeys |-> None]}

\* The settings the user saves: futures trading of the monitored symbol.
RaceSettings == SettingsRecord(Binance, "15m", FALSE, TRUE, {}, {SymS})

\* The idempotency key both requests supply
RaceKey == <<"k", 1>>

\* One of two HTTP requests (api/positions.py) calls create_order for the
\* monitored symbol with the same client_order_id as the other; a slot
\* serves one request.
RaceCreateOrder(s) ==
    /\ \A i \in DOMAIN returns : returns[i].slot # s
    /\ \E lookup_ok \in BOOLEAN :
          CreateOrderBegin(s, UserA, Binance, SymS, "BUY", TRUE,
                           DefaultTp, DefaultSl, Some(RaceKey), lookup_ok)
    /\ UNCHANGED <<envVars, detVars, schedVars, gwVars, adVars, sigVars, emaVars, stopVars, mgrVars>>

\* Each request is one coroutine: it runs from one await to the next, and
\* the requests and the tasks take turns at their awaits.
NextRace ==
    \/ \E t \in TaskIds : TickTrade(t)
    \/ ~MidStep /\ SaveSettings(UserA, RaceSettings)
    \/ ~MidStep /\ Reconcile
    \/ ~MidStep /\ \E t \in TaskIds : TaskRun(t)
    \/ ~MidStep /\ \E t \in TaskIds : TickEma9(t)
    \/ ~MidStep /\ \E t \in TaskIds : TickEma21(t)
    \/ ~MidStep /\ \E t \in TaskIds : TickPrice(t)
    \/ ~MidStep /\ \E t \in TaskIds : TickOrderPrice(t)
    \/ ~MidStep /\ \E t \in TaskIds : TickOrderDispatch(t)
    \/ ~MidStep /\ \E s \in ConcurrentSlots : RaceCreateOrder(s)
    \/ ~MidStep /\ \E s \in ConcurrentSlots : ApiPriceFetched(s)
    \/ ~MidStep /\ \E s \in ConcurrentSlots : ApiAdapterAnswered(s)

SpecRace == InitRace /\ [][NextRace]_vars

----------------------------------------------------------------------------
(* SpecSched: the scheduler reconciling the tasks with the settings and   *)
(* credentials the users save; a task that has begun a tick is awaiting   *)
(* the exchange                                                           *)

\* The settings user a saves.
SchedSettings ==
    {SettingsRecord(e, "15m", se, fe, sw, fw) :
        e \in Exchanges, se \in BOOLEAN, fe \in BOOLEAN,
        sw \in {{}, {SymS}}, fw \in {{SymS, SymT}}}

\* The settings user b saves.
OtherSettings == {SettingsRecord(Binance, "15m", FALSE, TRUE, {}, {SymS})}

InitSched ==
    /\ firebase_initialized \in BOOLEAN
    /\ co = [s \in Slots |-> IdleCall]
    /\ InitStore
    /\ settings = [u \in Users |-> None]
    /\ api_keys = [u \in Users |-> IF u = UserB THEN {Binance} ELSE Exchanges]
    /\ now = 0
    /\ ema_cache = [k \in CacheKeys |-> None]
    /\ tasks = <<>>
    /\ monitoring_tasks = {}
    /\ active_monitors = {}
    /\ InitGw
    /\ InitAd
    /\ InitSig
    /\ InitEma
    /\ emergency_stopped = {}
    /\ running = FALSE
    /\ loops = <<>>

NextSched ==
    \/ \E new \in SchedSettings : SaveSettings(UserA, new)
    \/ \E new \in OtherSettings : SaveSettings(UserB, new)
    \/ StopAutoTrading(UserA)
    \/ SaveApiKeys(UserA, Binance)
    \/ DeleteApiKeys(UserA, Binance)
    \/ Reconcile
    \/ \E t \in TaskIds : TaskRun(t)

SpecSched == InitSched /\ [][NextSched]_vars

\* SpecChange: user a changes the exchange, the interval and the watchlist
\* of the settings between the scheduler's cycles.
ChangeIntervals == {"15m", "1h"}

ChangeSettings ==
    {SettingsRecord(e, i, FALSE, fe, {}, fw) :
        e \in Exchanges, i \in ChangeIntervals, fe \in BOOLEAN,
        fw \in {{SymS}, {SymS, SymT}}}

NextChange ==
    \/ \E new \in ChangeSettings : SaveSettings(UserA, new)
    \/ Reconcile
    \/ \E t \in TaskIds : TaskRun(t)

SpecChange == InitSched /\ [][NextChange]_vars

\* SpecUsers: users whose ids are prefixes of one another or contain "_"
\* switch futures trading of S on and off between the scheduler's cycles.
UserAB == <<"a", "b">>
UserA_B == <<"a", "_", "b">>
NamedUsers == {UserA, UserAB, UserA_B}

UserSettings ==
    {SettingsRecord(Binance, "15m", FALSE, fe, {}, {SymS}) : fe \in BOOLEAN}

InitUsers ==
    /\ firebase_initialized \in BOOLEAN
    /\ co = [s \in Slots |-> IdleCall]
    /\ InitStore
    /\ settings = [u \in NamedUsers |-> None]
    /\ api_keys = [u \in NamedUsers |-> {Binance}]
    /\ now = 0
    /\ ema_cache = [k \in CacheKeys |-> None]
    /\ tasks = <<>>
    /\ monitoring_tasks = {}
    /\ active_monitors = {}
    /\ InitGw
    /\ InitAd
    /\ InitSig
    /\ InitEma
    /\ emergency_stopped = {}
    /\ running = FALSE
    /\ loops = <<>>

NextUsers ==
    \/ \E u \in NamedUsers, new \in UserSettings : SaveSettings(u, new)
    \/ Reconcile
    \/ \E t \in TaskIds : TaskRun(t)

SpecUsers == InitUsers /\ [][NextUsers]_vars

\* SpecLoops: start() and stop() of the scheduler are called in any order
\* while users switch futures trading of S on and off.
\* Tasks that start() creates in one behaviour
MaxLoops == 2

\* str.split(sep)[0] for a str that contains sep
SplitOnce0(str, sep) == SubSeq(str, 1, FindFrom(str, sep, 1) - 1)

\* start, lines 182-186: a task for run() is created unless running is set.
MgrStart ==
    /\ Len(loops) < MaxLoops
    /\ loops' = IF ~running THEN Append(loops, "created") ELSE loops
    /\ UNCHANGED <<tmVars, envVars, detVars, schedVars, gwVars, adVars, sigVars, emaVars, stopVars, running>>

\* run, lines 159-171, from the task's first step to its first sleep:
\* running is set and the first cycle is made.
LoopBegin(l) ==
    /\ l \in DOMAIN loops
    /\ loops[l] = "created"
    /\ running' = TRUE
    /\ loops' = [loops EXCEPT ![l] = "sleep"]
    /\ check_all_users

\* run, lines 168-180, when the sleep is over: the next cycle and the next
\* sleep while running is set, the end of the loop otherwise.
LoopWake(l) ==
    /\ l \in DOMAIN loops
    /\ loops[l] = "sleep"
    /\ IF running
       THEN check_all_users /\ UNCHANGED mgrVars
       ELSE /\ loops' = [loops EXCEPT ![l] = "ended"]
            /\ UNCHANGED <<tmVars, envVars, detVars, schedVars, gwVars, adVars, sigVars, emaVars, stopVars, running>>

\* stop, lines 197-199: stop_all_monitoring for one user id after the other.
RECURSIVE StopAllEach(_, _)
StopAllEach(st, user_ids) ==
    IF user_ids = {} THEN st
    ELSE LET user_id == CHOOSE x \in user_ids : TRUE
         IN StopAllEach(stop_all_monitoring(st, user_id), user_ids \ {user_id})

\* stop, lines 188-204
MgrStop ==
    /\ running' = FALSE
    /\ LET user_ids == {SplitOnce0(key, "_") : key \in active_monitors}
           st == StopAllEach([reg |-> monitoring_tasks, tks |-> tasks],
                             user_ids)
       IN /\ monitoring_tasks' = st.reg
          /\ tasks' = st.tks
    /\ active_monitors' = {}
    /\ UNCHANGED <<tmVars, envVars, ema_cache, gwVars, adVars, sigVars, emaVars, stopVars, loops>>

NextLoops ==
    \/ \E u \in Users, new \in UserSettings : SaveSettings(u, new)
    \/ MgrStart
    \/ MgrStop
    \/ \E l \in 1..MaxLoops : LoopBegin(l)
    \/ \E l \in 1..MaxLoops : LoopWake(l)

SpecLoops == InitSched /\ [][NextLoops]_vars

\* What one reconciliation cycle makes of the registry, the tasks and the
\* active set.
CycleResult ==
    LET sch == [reg |-> monitoring_tasks, tks |-> tasks,
                act |-> active_monitors]
    IN IF ~firebase_initialized THEN sch
       ELSE CheckEach(sch, {u \in DOMAIN settings : settings[u] # None})

\* A cycle would change something: ENABLED <<Reconcile>>_vars.
CyclePending ==
    /\ Len(CycleResult.tks) <= MaxTasks
    /\ CycleResult # [reg |-> monitoring_tasks, tks |-> tasks,
                      act |-> active_monitors]

\* SpecSchedLive: SpecSched with the scheduling of the event loop.  run()
\* calls check_all_users every check_interval seconds for ever
\* (auto_trading_manager.py lines 168-171): weak fairness of Reconcile,
\* written with its enabling condition spelled out.  A task that can take
\* its next step is resumed by the loop.
SpecSchedLive ==
    /\ InitSched
    /\ [][NextSched]_vars
    /\ ([]<>~CyclePending \/ []<><<Reconcile>>_vars)
    /\ \A t \in TaskIds : WF_vars(TaskRun(t))

----------------------------------------------------------------------------
(* UnifiedExchangeService: the calls *)

\* Mutant of IsAuthError: no message counts as an authentication error.
IsAuthError_Never(msg) == FALSE

\* any(x in error_msg for x in [...]), line 74
IsAuthError(msg) == msg \cap AuthPatterns # {}

\* Mutant of IsRateLimit: no message counts as a rate-limit error.
IsRateLimit_Never(msg) == FALSE

\* any(x in error_msg for x in [...]), line 82
IsRateLimit(msg) == msg \cap RatePatterns # {}

Raised(c, error, msg) ==
    [c EXCEPT !.pc = "done", !.outcome = error, !.cause = Some(msg)]

\* The except clause of the wrapper (lines 69-107) for an attempt that
\* raised an exception with message msg.
HandleFailure(c, msg) ==
    LET c1 == [c EXCEPT !.failure = Some(msg)]
        wait_time == Min(c.delay, MaxDelay)
    IN IF IsAuthError(msg) THEN Raised(c1, "AuthenticationError", msg)
       ELSE IF c.attempt < max_retries(c.op)
       THEN [c1 EXCEPT !.pc = "backoff", !.wake = clock + wait_time,
                       !.sleeps = Append(@, wait_time),
                       !.delay = @ * ExponentialBase]
       ELSE IF IsRateLimit(msg) THEN Raised(c1, "RateLimitError", msg)
       ELSE Raised(c1, "ExchangeError", msg)

\* The gap between the adapter call that begins now and the one before it
\* on the same exchange, capped at MinRequestInterval.
Gap(name) ==
    IF adapter_started[name] = None THEN closest[name]
    ELSE LET gap == Min(clock - adapter_started[name][1], MinRequestInterval)
         IN IF closest[name] = None THEN Some(gap)
            ELSE Some(Min(gap, closest[name][1]))

\* _rate_limit's last line and the method's if/elif chain up to the await
\* of the adapter (lines 134, 175-204): an unknown name raises ExchangeError
\* inside the wrapped method.
Dispatch(s, c) ==
    LET exchange_name == Lower(c.exchange)
    IN /\ last_request_time' = [last_request_time EXCEPT ![c.exchange] = clock]
       /\ IF exchange_name \in SupportedExchanges
          THEN /\ gcall' = [gcall EXCEPT ![s] =
                              [c EXCEPT !.pc = "adapter", !.n_adapter = @ + 1]]
               /\ adapter_started' =
                     [adapter_started EXCEPT ![exchange_name] = Some(clock)]
               /\ closest' = [closest EXCEPT ![exchange_name] =
                                 Gap(exchange_name)]
          ELSE /\ gcall' = [gcall EXCEPT ![s] =
                              HandleFailure(c, UnsupportedMessage)]
               /\ UNCHANGED <<adapter_started, closest>>

\* _rate_limit up to its await (lines 127-132)
RateLimit(s, c) ==
    LET last_time == last_request_time[c.exchange]
        time_since_last == clock - last_time
        c1 == [c EXCEPT !.n_rate = @ + 1]
    IN IF time_since_last < MinRequestInterval
       THEN /\ gcall' = [gcall EXCEPT ![s] =
                  [c1 EXCEPT !.pc = "rate_sleep",
                       !.wake = clock + (MinRequestInterval - time_since_last)]]
            /\ UNCHANGED <<last_request_time, adapter_started, closest>>
       ELSE Dispatch(s, c1)

\* Mutant of CacheFresh: an entry is served whatever its age.
CacheFresh_Always(timestamp_fetch) == TRUE

\* time.time() - cache_timestamp < self._cache_duration_seconds (line 168)
CacheFresh(timestamp_fetch) == clock - timestamp_fetch < CacheDuration

\* One run of the wrapped method up to its first await: get_balance looks
\* into the cache first (lines 160-173), every method runs _rate_limit.
BeginAttempt(s, c) ==
    LET key == cache_key(Lower(c.exchange), GwApiKey, c.is_futures)
        cached_data == IF c.op = "get_balance" THEN balance_cache[key]
                       ELSE None
        c1 == [c EXCEPT !.n_func = @ + 1,
                  !.seen_age = IF cached_data = None THEN None
                               ELSE Some(clock - cached_data[1].timestamp_fetch)]
    IN /\ balance_cache' = balance_cache
       /\ IF cached_data # None /\ CacheFresh(cached_data[1].timestamp_fetch)
          THEN /\ gcall' = [gcall EXCEPT ![s] =
                     [c1 EXCEPT !.pc = "done", !.outcome = "returned",
                                !.value = Some(cached_data[1].data),
                                !.cached = TRUE,
                                !.fetches = cached_data[1].fetches]]
               /\ UNCHANGED <<last_request_time, adapter_started, closest>>
          ELSE RateLimit(s, c1)

\* A caller calls a method of the gateway, one of ops, for one of exchanges.
GwCall(s, ops, exchanges) ==
    /\ gcall[s].pc \in {"idle", "done"}
    /\ n_gcalls < MaxGwCalls
    /\ n_gcalls' = n_gcalls + 1
    /\ \E op \in ops, exchange \in exchanges, is_futures \in BOOLEAN :
          /\ op # "get_balance" => is_futures
          /\ BeginAttempt(s, [IdleGcall EXCEPT !.op = op,
                                 !.exchange = exchange,
                                 !.is_futures = is_futures,
                                 !.delay = InitialDelay])
    /\ UNCHANGED <<clock, time_steps>>
    /\ UNCHANGED <<tmVars, envVars, detVars, schedVars, adVars, sigVars, emaVars, stopVars, mgrVars>>

\* The sleep of _rate_limit is over.
GwRateWake(s) ==
    /\ gcall[s].pc = "rate_sleep"
    /\ clock >= gcall[s].wake
    /\ Dispatch(s, gcall[s])
    /\ UNCHANGED <<clock, time_steps, balance_cache, n_gcalls>>
    /\ UNCHANGED <<tmVars, envVars, detVars, schedVars, adVars, sigVars, emaVars, stopVars, mgrVars>>

\* The adapter answers: the method normalizes and returns the result,
\* get_balance after storing it in the cache (lines 206-230), or the
\* wrapper handles the exception the method raises (lines 232-237); the
\* adapter's failures are drawn from messages.
GwAdapterAnswers(s, messages) ==
    /\ gcall[s].pc = "adapter"
    /\ LET c == gcall[s]
           exchange_name == Lower(c.exchange)
           key == cache_key(exchange_name, GwApiKey, c.is_futures)
       IN \/ \E total \in IF c.op = "get_balance" THEN Balances ELSE {1} :
                LET normalized == Normalized(exchange_name, c.is_futures, total)
                IN /\ gcall' = [gcall EXCEPT ![s] =
                         [c EXCEPT !.pc = "done", !.outcome = "returned",
                                   !.value = Some(normalized)]]
                   /\ balance_cache' =
                         IF c.op = "get_balance"
                         THEN [balance_cache EXCEPT ![key] =
                                  Some([timestamp_fetch |-> clock,
                                        data |-> normalized,
                                        fetches |-> c.n_adapter])]
                         ELSE balance_cache
          \/ \E msg \in messages :
                /\ gcall' = [gcall EXCEPT ![s] = HandleFailure(c, Wrap(msg))]
                /\ balance_cache' = balance_cache
    /\ UNCHANGED <<clock, time_steps, last_request_time, n_gcalls,
                   adapter_started, closest>>
    /\ UNCHANGED <<tmVars, envVars, detVars, schedVars, adVars, sigVars, emaVars, stopVars, mgrVars>>

\* The backoff sleep is over: the loop's next attempt (line 66).
GwBackoffWake(s) ==
    /\ gcall[s].pc = "backoff"
    /\ clock >= gcall[s].wake
    /\ BeginAttempt(s, [gcall[s] EXCEPT !.attempt = @ + 1])
    /\ UNCHANGED <<clock, time_steps, n_gcalls>>
    /\ UNCHANGED <<tmVars, envVars, detVars, schedVars, adVars, sigVars, emaVars, stopVars, mgrVars>>

\* The clock moves: by half the request interval, by a little less than the
\* cache duration, or up to a sleeper's wake-up time.
GwTimePasses ==
    /\ time_steps < MaxTimeSteps
    /\ time_steps' = time_steps + 1
    /\ \E d \in {MinRequestInterval \div 2,
                 CacheDuration - MinRequestInterval \div 2}
                \cup {gcall[s].wake - clock : s \in
                         {r \in Callers :
                             /\ gcall[r].pc \in {"rate_sleep", "backoff"}
                             /\ gcall[r].wake > clock}} :
          clock' = clock + d
    /\ UNCHANGED <<last_request_time, balance_cache, gcall, n_gcalls,
                   adapter_started, closest>>
    /\ UNCHANGED <<tmVars, envVars, detVars, schedVars, adVars, sigVars, emaVars, stopVars, mgrVars>>

InitGateway ==
    /\ firebase_initialized = TRUE
    /\ co = [s \in Slots |-> IdleCall]
    /\ InitStore
    /\ InitIdle

\* SpecGateway: one caller calling the gateway's methods one call after
\* the other.
NextGateway ==
    \/ GwCall(1, Operations, {Binance, Kraken})
    \/ GwRateWake(1)
    \/ GwAdapterAnswers(1, AdapterMessages)
    \/ GwBackoffWake(1)
    \/ GwTimePasses

SpecGateway == InitGateway /\ [][NextGateway]_vars

\* SpecRate: concurrent callers fetching prices from one exchange, whose
\* name they write in two ways.
NextRate ==
    \/ \E s \in Callers :
          GwCall(s, {"get_current_price"}, {Binance, BinanceCaps})
    \/ \E s \in Callers : GwRateWake(s)
    \/ \E s \in Callers : GwAdapterAnswers(s, {{"timeout"}})
    \/ \E s \in Callers : GwBackoffWake(s)
    \/ GwTimePasses

SpecRate == InitGateway /\ [][NextRate]_vars

----------------------------------------------------------------------------
(* The adapters' create_order, one action per await *)

AdRaise(c, error) == [c EXCEPT !.pc = "done", !.outcome = "raised", !.error = error]

AdReturn(c) == [c EXCEPT !.pc = "done", !.outcome = "returned"]

AdSend(c, request) == [c EXCEPT !.requests = Append(@, request)]

\* "if quantity < min_qty" of BinanceService.create_order
BelowMinimum(quantity, min_qty) ==
    quantity < min_qty

\* Where a call goes once its quantity is known.
FirstRequest(is_futures) == IF is_futures THEN "leverage" ELSE "order"

\* Where BinanceService.create_order goes after the market order.
AfterMarketOrder(c) ==
    CASE ~c.is_futures -> "done"
      [] c.tp_percentage > 0 -> "tp_info"
      [] c.sl_percentage > 0 -> "sl_info"
      [] OTHER -> "done"

\* create_order is called: the venue's price and lot rules are what the
\* exchange will answer; BinanceService awaits the ticker first,
\* BybitService starts with its requests.
AdCreateOrder ==
    /\ ad.pc \in {"idle", "done"}
    /\ n_ad < MaxAdCalls
    /\ n_ad' = n_ad + 1
    /\ \E exchange \in AdapterExchanges, side \in RequestSides,
          amount \in Amounts, is_futures \in BOOLEAN,
          tp_percentage \in Percentages, sl_percentage \in Percentages,
          venue_price \in VenuePrices, step_size \in StepSizes,
          min_qty \in MinQtys :
          ad' = [IdleAd EXCEPT
                    !.pc = IF exchange = Binance THEN "price"
                           ELSE FirstRequest(is_futures),
                    !.exchange = exchange, !.side = side,
                    !.amount = amount, !.is_futures = is_futures,
                    !.tp_percentage = tp_percentage,
                    !.sl_percentage = sl_percentage,
                    !.venue_price = venue_price,
                    !.step_size = step_size, !.min_qty = min_qty]
    /\ UNCHANGED <<tmVars, envVars, detVars, schedVars, gwVars, sigVars, emaVars, stopVars, mgrVars>>

\* BinanceService.create_order: get_current_price answered.
AdPrice ==
    /\ ad.pc = "price"
    /\ \E answer \in HttpAnswers :
          ad' = IF answer = "ok"
                THEN [ad EXCEPT !.pc = "info"]
                ELSE AdRaise(ad, "price")
    /\ UNCHANGED <<tmVars, envVars, detVars, schedVars, gwVars, sigVars, emaVars, stopVars, n_ad, mgrVars>>

\* BinanceService.create_order: get_symbol_info answered; the quantity is
\* computed, rounded and tested against the minimum.
AdSymbolInfo ==
    /\ ad.pc = "info"
    /\ \E answer \in HttpAnswers :
          ad' = IF answer # "ok"
                THEN AdRaise(ad, "symbol info")
                ELSE LET quantity == round_quantity(
                                        Quantity(ad.amount, ad.venue_price),
                                        ad.step_size)
                     IN IF BelowMinimum(quantity, ad.min_qty)
                        THEN AdRaise([ad EXCEPT !.quantity = quantity],
                                     "below minimum")
                        ELSE [ad EXCEPT !.quantity = quantity,
                                        !.pc = FirstRequest(ad.is_futures)]
    /\ UNCHANGED <<tmVars, envVars, detVars, schedVars, gwVars, sigVars, emaVars, stopVars, n_ad, mgrVars>>

\* The leverage request of a futures order.  BinanceService raises on an
\* error status; BybitService does not look at the response.
AdLeverage ==
    /\ ad.pc = "leverage"
    /\ \E answer \in HttpAnswers :
          LET sent == AdSend(ad, Request("leverage", "", 0, 0))
          IN ad' = IF \/ answer = "network"
                      \/ answer = "status" /\ ad.exchange = Binance
                   THEN AdRaise(sent, "leverage")
                   ELSE [sent EXCEPT !.pc = "order"]
    /\ UNCHANGED <<tmVars, envVars, detVars, schedVars, gwVars, sigVars, emaVars, stopVars, n_ad, mgrVars>>

\* The market order.  BinanceService sends the rounded quantity and
\* side.upper(); BybitService sends str(amount) as qty and
\* side.capitalize().  avg_price is the avgPrice of Binance's response.
AdOrder ==
    /\ ad.pc = "order"
    /\ \E answer \in HttpAnswers, avg_price \in {0, ad.venue_price + 1} :
          LET sent == IF ad.exchange = Binance
                      THEN AdSend(ad, Request("market", upper(ad.side),
                                              ad.quantity, 0))
                      ELSE AdSend(ad, Request("market", capitalize(ad.side),
                                              ad.amount * QtyScale, 0))
              entry_price == IF avg_price = 0 THEN ad.venue_price
                             ELSE avg_price
          IN ad' = CASE answer # "ok" -> AdRaise(sent, "order")
                     [] answer = "ok" /\ ad.exchange = Bybit -> AdReturn(sent)
                     [] OTHER ->
                        LET pc == AfterMarketOrder(sent)
                            got == IF sent.is_futures
                                   THEN [sent EXCEPT
                                            !.entry_price = entry_price]
                                   ELSE sent
                        IN IF pc = "done" THEN AdReturn(got)
                           ELSE [got EXCEPT !.pc = pc]
    /\ UNCHANGED <<tmVars, envVars, detVars, schedVars, gwVars, sigVars, emaVars, stopVars, n_ad, mgrVars>>

\* _create_tp_sl_order: get_symbol_info answered; a failure is logged and
\* the order id is None.
AdTpSlInfo ==
    /\ ad.pc \in {"tp_info", "sl_info"}
    /\ \E answer \in HttpAnswers :
          ad' = CASE answer = "ok" /\ ad.pc = "tp_info" ->
                        [ad EXCEPT !.pc = "tp"]
                  [] answer = "ok" /\ ad.pc = "sl_info" ->
                        [ad EXCEPT !.pc = "sl"]
                  [] answer # "ok" /\ ad.pc = "tp_info"
                        /\ ad.sl_percentage > 0 ->
                        [ad EXCEPT !.pc = "sl_info"]
                  [] OTHER -> AdReturn(ad)
    /\ UNCHANGED <<tmVars, envVars, detVars, schedVars, gwVars, sigVars, emaVars, stopVars, n_ad, mgrVars>>

\* _create_tp_sl_order: the conditional order is sent and answered.
AdTpSlOrder ==
    /\ ad.pc \in {"tp", "sl"}
    /\ \E answer \in HttpAnswers :
          LET stop_price ==
                  IF ad.pc = "tp"
                  THEN AdapterTpPrice(ad.entry_price, ad.side,
                                      ad.tp_percentage)
                  ELSE AdapterSlPrice(ad.entry_price, ad.side,
                                      ad.sl_percentage)
              sent == AdSend(ad, Request(
                          IF ad.pc = "tp" THEN "TAKE_PROFIT_MARKET"
                          ELSE "STOP_MARKET",
                          CloseSide(ad.side), ad.quantity,
                          Round(stop_price, TickSize)))
              got == IF ad.pc = "tp"
                     THEN [sent EXCEPT !.tp_order_id = (answer = "ok")]
                     ELSE [sent EXCEPT !.sl_order_id = (answer = "ok")]
          IN ad' = IF ad.pc = "tp" /\ ad.sl_percentage > 0
                   THEN [got EXCEPT !.pc = "sl_info"]
                   ELSE AdReturn(got)
    /\ UNCHANGED <<tmVars, envVars, detVars, schedVars, gwVars, sigVars, emaVars, stopVars, n_ad, mgrVars>>

InitAdapter ==
    /\ firebase_initialized = TRUE
    /\ co = [s \in Slots |-> IdleCall]
    /\ InitStore
    /\ InitIdle

\* SpecAdapter: create_order calls of the exchange adapters, one after the
\* other.
NextAdapter ==
    \/ AdCreateOrder
    \/ AdPrice
    \/ AdSymbolInfo
    \/ AdLeverage
    \/ AdOrder
    \/ AdTpSlInfo
    \/ AdTpSlOrder

SpecAdapter == InitAdapter /\ [][NextAdapter]_vars

----------------------------------------------------------------------------
(* calculate_ema, one action per await *)

\* calculate_ema is called: an unsupported exchange name returns None at
\* once (lines 199-201), a supported one requests the venue's candles.
EmaCalculate ==
    /\ ema_call.pc \in {"idle", "done"}
    /\ n_ema < MaxEmaCalls
    /\ n_ema' = n_ema + 1
    /\ \E exchange \in EmaExchanges, period \in EmaPeriods,
          chronological \in ChronologicalSeries :
          ema_call' = [IdleEma EXCEPT
                          !.pc = IF Lower(exchange) \in SupportedExchanges
                                 THEN "fetch" ELSE "done",
                          !.exchange = exchange, !.period = period,
                          !.chronological = chronological]
    /\ UNCHANGED <<tmVars, envVars, detVars, schedVars, gwVars, adVars, sigVars, stopVars, mgrVars>>

\* The venue answers: an HTTP error or an exception makes calculate_ema
\* return None (lines 226-231), a response is turned into closes and the
\* EMA is computed.
EmaAnswered ==
    /\ ema_call.pc = "fetch"
    /\ \E answer \in HttpAnswers :
          LET exchange_name == Lower(ema_call.exchange)
              candles == VenueCandles(exchange_name, ema_call.chronological,
                                      Limit(ema_call.period))
          IN ema_call' = [ema_call EXCEPT
                !.pc = "done",
                !.result = IF answer = "ok"
                           THEN ema_of(closes_of(exchange_name, candles),
                                       ema_call.period)
                           ELSE None,
                !.answer = answer]
    /\ UNCHANGED <<tmVars, envVars, detVars, schedVars, gwVars, adVars, sigVars, stopVars, n_ema, mgrVars>>

InitCalc ==
    /\ firebase_initialized = TRUE
    /\ co = [s \in Slots |-> IdleCall]
    /\ InitStore
    /\ InitIdle

\* SpecEma: calculate_ema calls on the candles of a market.
NextEma ==
    \/ EmaCalculate
    \/ EmaAnswered

SpecEma == InitCalc /\ [][NextEma]_vars

----------------------------------------------------------------------------
(* Claims about TradeManager.create_order, checked under SpecTM *)

OrdersFor(user_id, client_order_id) ==
    {i \in DOMAIN exchange_orders :
        /\ exchange_orders[i].user = user_id
        /\ exchange_orders[i].client_order_id = client_order_id}

ReturnedFor(user_id, client_order_id) ==
    {i \in DOMAIN returns :
        /\ returns[i].user = user_id
        /\ returns[i].client_order_id = client_order_id
        /\ returns[i].outcome = "returned"}

TradesOfCall(n) == {i \in DOMAIN trades : trades[i].call = n}
OrdersOfCall(n) == {i \in DOMAIN exchange_orders : exchange_orders[i].call = n}

\* C1: for any user and any client_order_id, after any sequence of
\* sequential create_order calls that supply that client_order_id, at most
\* one order has been submitted to an exchange adapter and every call that
\* returned yielded the same trade id.
C1_SameKeyOneOrder ==
    \A u \in Users, k \in ClientIds :
        /\ Cardinality(OrdersFor(u, k)) <= 1
        /\ \A i, j \in ReturnedFor(u, k) :
              returns[i].trade_id = returns[j].trade_id

C4_FailurePropagates ==
    \A i \in DOMAIN returns :
        /\ (returns[i].price_env = "fail" \/ returns[i].adapter_env = "fail") =>
              /\ returns[i].outcome = "ExchangeError"
              /\ returns[i].n_write = 0
              /\ TradesOfCall(returns[i].call) = {}
        /\ returns[i].price_env = "fail" =>
              /\ returns[i].n_adapter = 0
              /\ OrdersOfCall(returns[i].call) = {}

C4_Witness ==
    /\ \E i \in DOMAIN returns : returns[i].price_env = "fail"
    /\ \E i \in DOMAIN returns : returns[i].adapter_env = "fail"

\* C5: if writing the Trade to the store fails after the adapter accepted
\* the order, create_order neither reverses the exchange order nor raises:
\* it returns a Trade with status open and idempotent = false.
C5_SaveFailureTolerated ==
    \A i \in DOMAIN returns :
        (returns[i].adapter_env = "ok" /\ returns[i].save_env = "fail") =>
            /\ returns[i].outcome = "returned"
            /\ ~returns[i].idempotent
            /\ returns[i].status = "open"
            /\ returns[i].trade_id # None
            /\ Cardinality(OrdersOfCall(returns[i].call)) = 1
            /\ TradesOfCall(returns[i].call) = {}

C5_Witness ==
    /\ firebase_initialized
    /\ \E i \in DOMAIN returns :
          returns[i].adapter_env = "ok" /\ returns[i].save_env = "fail"

----------------------------------------------------------------------------
(* Claims about the detector, under SpecDet *)

SameKey(a, b) ==
    /\ a.user = b.user /\ a.exchange = b.exchange
    /\ a.symbol = b.symbol /\ a.is_futures = b.is_futures

\* Trades written in this behaviour (the stored ones have call numbers < 0)
NewTrades == {i \in DOMAIN trades : trades[i].call > 0}

\* C2: whenever an open Trade exists for (user, exchange, symbol,
\* is_futures) an auto-trade for that key invokes no create_order, and the
\* store never holds two open Trades with the same key.
C2_OpenTradeSkipsAutoTrade ==
    /\ \A t \in DOMAIN tasks : \A i \in DOMAIN tasks[t].invoked :
          tasks[t].open_seen[tasks[t].invoked[i].type] # "open"
    /\ \A i \in NewTrades : \A j \in DOMAIN trades :
          (i # j /\ trades[i].status = "open" /\ trades[j].status = "open")
             => ~SameKey(trades[i], trades[j])

\* A task whose tick is over.
TickOver(k) == k.state = "running" /\ k.pc = "sleep" /\ k.ticks > 0

InvokedFor(k, ty) == {i \in DOMAIN k.invoked : k.invoked[i].type = ty}

\* C6: on a tick that detects a crossover create_order is invoked at most
\* once per trade type, and exactly for the types that are enabled with the
\* symbol on their watchlist and without an open Trade for the key, with
\* side BUY for BULLISH and SELL for BEARISH; a tick without a crossover
\* invokes no create_order.
C6_OneOrderPerWantedType ==
    \A t \in DOMAIN tasks :
        LET k == tasks[t]
        IN TickOver(k) =>
              IF k.detected
              THEN \A ty \in TradeTypes :
                      /\ Cardinality(InvokedFor(k, ty)) <= 1
                      /\ (InvokedFor(k, ty) # {})
                            <=> (k.wanted[ty] /\ k.open_seen[ty] # "open")
                      /\ \A i \in InvokedFor(k, ty) :
                            /\ k.signal = "BULLISH" => k.invoked[i].side = "BUY"
                            /\ k.signal = "BEARISH" => k.invoked[i].side = "SELL"
              ELSE k.invoked = <<>>

\* A task that has just made the crossover test of its tick.
Tested(k) == k.state = "running" /\ k.pc = "price"

\* C7: the direction is BULLISH exactly when a previous pair exists with
\* prev_ema9 < prev_ema21 and ema9 > ema21, BEARISH exactly when a previous
\* pair exists with prev_ema9 > prev_ema21 and ema9 < ema21, and null
\* otherwise.
C7_Direction ==
    \A t \in DOMAIN tasks :
        LET k == tasks[t]
            pair == k.previous_ema9 # None /\ k.previous_ema21 # None
        IN Tested(k) =>
              /\ k.signal = "BULLISH"
                    <=> (pair /\ k.previous_ema9[1] < k.previous_ema21[1]
                              /\ k.ema9[1] > k.ema21[1])
              /\ k.signal = "BEARISH"
                    <=> (pair /\ k.previous_ema9[1] > k.previous_ema21[1]
                              /\ k.ema9[1] < k.ema21[1])
              /\ k.signal \in {"BULLISH", "BEARISH", ""}

\* C7 witness: both directions and a null direction with a previous pair
\* are produced; here a BEARISH one.
C7_Witness ==
    \E t \in DOMAIN tasks :
        /\ Tested(tasks[t]) /\ tasks[t].signal = "BEARISH"
        /\ tasks[t].previous_ema9 = Some(2) /\ tasks[t].ema9 = Some(1)

\* C8 as stated: the first tick of every task yields no signal and places
\* no order.
C8_FirstTickSilent ==
    \A t \in DOMAIN tasks :
        tasks[t].ticks = 1 =>
            tasks[t].signal = "" /\ tasks[t].invoked = <<>>

\* C8 amended: the first tick of a task yields no signal and places no
\* order when the cache holds no EMA9/EMA21 pair of the key younger than
\* the time to live.
C8_FirstTickSilentWithoutPair ==
    \A t \in DOMAIN tasks :
        (tasks[t].ticks = 1 /\ ~tasks[t].fresh_pair) =>
            tasks[t].signal = "" /\ tasks[t].invoked = <<>>

\* C8 witness: a first tick has computed EMA9 above EMA21 with a cached
\* pair that is too old, and has no signal.
C8_Witness ==
    \E t \in DOMAIN tasks :
        /\ Tested(tasks[t]) /\ tasks[t].ticks = 1
        /\ ~tasks[t].fresh_pair /\ tasks[t].signal = ""
        /\ tasks[t].ema9 = Some(2) /\ tasks[t].ema21 = Some(1)
        /\ ema_cache[<<tasks[t].user, tasks[t].symbol, "15m", 9>>] # None
        /\ now >= CacheTtl

----------------------------------------------------------------------------
(* Claims about the scheduler, under SpecSched *)

RunningSymbols(user_id) ==
    {tasks[t].symbol : t \in {i \in DOMAIN tasks :
        tasks[i].state = "running" /\ tasks[i].user = user_id}}

Reconciled ==
    \A u \in Users :
        (/\ settings[u] # None
         /\ settings[u][1].spot_enabled \/ settings[u][1].futures_enabled
         /\ HasApiKeys(u, settings[u][1].exchange))
        => RunningSymbols(u) = symbols_to_monitor(settings[u][1])

\* C9: after a reconciliation cycle, for every user with a trade type
\* enabled and credentials present, the symbols with a running task are
\* the union of the watchlists of the enabled trade types.
C9_CycleReconciles == [][Reconcile => Reconciled']_vars

\* C10: at every moment there is at most one running task per
\* (user, symbol).
C10_OneTaskPerUserSymbol ==
    \A t1, t2 \in DOMAIN tasks :
        (/\ t1 # t2
         /\ tasks[t1].state = "running" /\ tasks[t2].state = "running"
         /\ tasks[t1].user = tasks[t2].user)
        => tasks[t1].symbol # tasks[t2].symbol

\* The users a reconciliation cycle sees with both trade types disabled.
SeenDisabled ==
    {u \in Users : /\ firebase_initialized
                   /\ settings[u] # None
                   /\ ~settings[u][1].spot_enabled
                   /\ ~settings[u][1].futures_enabled}

Stopped(user_id) ==
    /\ RunningSymbols(user_id) = {}
    /\ \A key \in active_monitors : ~StartsWith(key, UserPrefix(user_id))

\* C11: when a reconciliation cycle sees a user with both spot and futures
\* disabled, after the cycle no task of that user is running and none of
\* the user's keys is in active_monitors.
C11_DisabledUserStopped ==
    [][Reconcile => \A u \in SeenDisabled : Stopped(u)']_vars

----------------------------------------------------------------------------
(* Claims about the gateway, under SpecGateway and SpecRate *)

RECURSIVE Pow(_, _)
Pow(b, n) == IF n = 0 THEN 1 ELSE b * Pow(b, n - 1)

\* C13: a gateway call runs the underlying operation at most 3 times; the
\* sleep after the k-th failed attempt is min(1s * 2^(k-1), 60s), so 1s and
\* then 2s; a call that returns does so at its first successful attempt.
C13_AtMostThreeAttempts ==
    \A s \in Callers :
        LET c == gcall[s]
        IN /\ c.n_func <= 3
           /\ Len(c.sleeps) <= 2
           /\ \A k \in DOMAIN c.sleeps :
                 c.sleeps[k] = Min(1000 * Pow(2, k - 1), 60000)
           /\ (c.pc = "done" /\ c.outcome = "returned") =>
                 c.n_func = Len(c.sleeps) + 1

\* C14: an attempt that fails with a message containing "invalid",
\* "unauthorized", "forbidden" or "api key" ends the call with
\* AuthenticationError at once, whichever attempt it is: the only sleeps
\* of the call are those that followed its earlier attempts.
C14_AuthErrorNotRetried ==
    \A s \in Callers :
        LET c == gcall[s]
        IN (/\ c.failure # None
            /\ c.failure[1] \cap {"invalid", "unauthorized", "forbidden",
                                  "api key"} # {}) =>
              /\ c.pc = "done"
              /\ c.outcome = "AuthenticationError"
              /\ Len(c.sleeps) = c.attempt
              /\ c.n_func = c.attempt + 1

C14_Witness ==
    \E s \in Callers :
        /\ gcall[s].outcome = "AuthenticationError"
        /\ gcall[s].attempt > 0
        /\ gcall[s].n_adapter > 1

\* The call has ended after its last allowed attempt failed without an
\* authentication pattern.
Exhausted(c) ==
    /\ c.pc = "done"
    /\ c.outcome # "returned"
    /\ c.failure # None
    /\ c.failure[1] \cap AuthPatterns = {}

\* C15 as stated: a call whose attempts are exhausted raises RateLimitError
\* if the failure contains "429" or "rate limit", and otherwise an
\* ExchangeError that wraps the failure.
C15_ExhaustedRaises ==
    \A s \in Callers :
        LET c == gcall[s]
        IN Exhausted(c) =>
              IF c.failure[1] \cap {"429", "rate limit"} # {}
              THEN c.outcome = "RateLimitError"
              ELSE c.outcome = "ExchangeError" /\ c.cause = c.failure

\* C15, amended: "too many requests" is a rate-limit pattern as well.
C15_ExhaustedRaisesAllPatterns ==
    \A s \in Callers :
        LET c == gcall[s]
        IN Exhausted(c) =>
              /\ c.attempt = max_retries(c.op)
              /\ IF c.failure[1] \cap {"429", "rate limit",
                                       "too many requests"} # {}
                 THEN c.outcome = "RateLimitError"
                 ELSE c.outcome = "ExchangeError"
              /\ c.cause = c.failure

C15_Witness ==
    \E s \in Callers :
        /\ Exhausted(gcall[s])
        /\ gcall[s].outcome = "RateLimitError"
        /\ "429" \in gcall[s].failure[1]

\* C16: on every exchange any two adapter calls of the gateway begin at
\* least 100 ms apart, however the concurrent callers interleave.
C16_CallsSpaced ==
    \A e \in GwNames : closest[e] # None => closest[e][1] >= 100

\* C17 as stated: a get_balance call that finds an entry of its key younger
\* than 120 s is served from the cache, without an adapter call and without
\* the rate limiter, and returns the cached value; it and the call that
\* filled the entry made exactly one adapter call together; an entry aged
\* 120 s or more is not served.
C17_CachedBalance ==
    \A s \in Callers :
        LET c == gcall[s]
            key == cache_key(Lower(c.exchange), GwApiKey, c.is_futures)
        IN /\ (c.op = "get_balance" /\ c.seen_age # None) =>
                 (c.cached <=> c.seen_age[1] < 120000)
           /\ c.cached =>
                 /\ c.pc = "done" /\ c.outcome = "returned"
                 /\ c.n_adapter = 0 /\ c.n_rate = 0
                 /\ c.value = Some(balance_cache[key][1].data)
                 /\ c.fetches + c.n_adapter = 1

\* C17, amended: the call that filled the entry made one adapter call for
\* each of its attempts, the last of them successful; the call served from
\* the cache makes none.
C17_CachedBalanceNoCall ==
    \A s \in Callers :
        LET c == gcall[s]
            key == cache_key(Lower(c.exchange), GwApiKey, c.is_futures)
        IN /\ (c.op = "get_balance" /\ c.seen_age # None) =>
                 (c.cached <=> c.seen_age[1] < 120000)
           /\ c.cached =>
                 /\ c.pc = "done" /\ c.outcome = "returned"
                 /\ c.n_adapter = 0 /\ c.n_rate = 0
                 /\ c.value = Some(balance_cache[key][1].data)
                 /\ c.fetches >= 1

C17_Witness ==
    \E s \in Callers :
        /\ gcall[s].cached
        /\ gcall[s].seen_age = Some(120000 - 50)

\* C18: a gateway call with an exchange name outside binance, bybit, okx,
\* kucoin, mexc invokes no adapter, sleeps no backoff and ends at its first
\* dispatch with an error.
C18_UnsupportedRejectedAtOnce ==
    \A s \in Callers :
        LET c == gcall[s]
        IN (c.pc # "idle" /\ Lower(c.exchange) \notin SupportedExchanges) =>
              /\ c.n_adapter = 0
              /\ c.sleeps = <<>>
              /\ c.n_func = 1
              /\ c.pc = "done" /\ c.outcome = "ExchangeError"

----------------------------------------------------------------------------
(* Claims about closing and about the side, under SpecTrades *)

CloseCalls == {i \in DOMAIN returns : returns[i].target # None}

\* C19: close_position calls the adapter's close_position first; only when
\* it has succeeded is the Trade's status set to closed, with a closed_at
\* timestamp; when that update fails the call still returns the adapter's
\* result; when the adapter's close fails the call raises ExchangeError and
\* the Trade's status stays what it was.
C19_CloseThenMark ==
    /\ \A s \in ApiSlots :
          co[s].pc = "close" =>
             StatusOf(trades, co[s].user, co[s].trade_id[1]) = co[s].before
    /\ \A i \in CloseCalls :
          LET r == returns[i]
              now_status == StatusOf(trades, r.user, r.target[1])
              closed == {j \in DOMAIN trades :
                            /\ trades[j].user = r.user
                            /\ trades[j].id = r.target
                            /\ trades[j].status = "closed"
                            /\ trades[j].closed_at # None}
          IN /\ (r.adapter_env = "ok") <=> (r.outcome = "returned")
             /\ (r.adapter_env = "ok" /\ r.save_env = "ok") => closed # {}
             /\ r.adapter_env # "ok" =>
                   /\ r.outcome = "ExchangeError"
                   /\ r.n_write = 0
                   /\ i = Len(returns) => now_status = r.before

C19_Witness ==
    \E i \in CloseCalls :
        /\ returns[i].before = "open"
        /\ returns[i].adapter_env = "ok"
        /\ returns[i].save_env = "fail"
        /\ returns[i].outcome = "returned"
        /\ StatusOf(trades, returns[i].user, returns[i].target[1]) = "open"

\* C20: every order dispatched to an exchange adapter and every persisted
\* Trade has side BUY or SELL; a request with side LONG is treated as BUY
\* and one with SHORT as SELL in the side sent to the venue, in the
\* direction of the TP/SL trigger prices and in the stored side.
C20_SideNormalized ==
    /\ \A s \in ApiSlots :
          co[s].pc = "adapter" => co[s].side \in {"BUY", "SELL"}
    /\ \A i \in DOMAIN exchange_orders :
          /\ exchange_orders[i].side \in {"BUY", "SELL"}
          /\ exchange_orders[i].tp_above <=> exchange_orders[i].side = "BUY"
    /\ \A i \in DOMAIN trades :
          /\ trades[i].side \in {"BUY", "SELL"}
          /\ trades[i].tp_above <=> trades[i].side = "BUY"

----------------------------------------------------------------------------
(* Claims about the exchange adapters, under SpecAdapter *)

\* amount / price rounded down to a multiple of step_size (no step: as is).
ConvertedQuantity(c) ==
    LET q == Quantity(c.amount, c.venue_price)
    IN IF c.step_size = 0 THEN q ELSE (q \div c.step_size) * c.step_size

\* C21: for every adapter, a create_order whose quote amount converts to a
\* quantity below min_qty sends no request to the exchange (no leverage
\* change, no market order, no TP/SL order) and, unless the price or the lot
\* rules could not be fetched, ends with the order-too-small error.
C21_TooSmallSubmitsNothing ==
    (ad.pc # "idle" /\ ConvertedQuantity(ad) < ad.min_qty)
        => /\ ad.requests = <<>>
           /\ ad.pc = "done"
                 => /\ ad.outcome = "raised"
                    /\ ad.error \in {"below minimum", "price", "symbol info"}

----------------------------------------------------------------------------
(* Claims about the prices of a Trade, under SpecTrades *)

\* C22: a stored Trade with entry price e and side BUY has
\* tp_price = e*(1 + tp_pct/100) and sl_price = e*(1 - sl_pct/100), one
\* with side SELL has tp_price = e*(1 - tp_pct/100) and
\* sl_price = e*(1 + sl_pct/100) (prices in cents); tp_price (sl_price) is
\* null exactly when tp_pct (sl_pct) is not greater than 0.
C22_TpSlPrices ==
    \A i \in DOMAIN trades :
        LET t == trades[i]
            e == t.entry_price
        IN /\ (t.side = "BUY" /\ t.tp_percentage > 0)
                 => t.tp_price = Some(e * (100 + t.tp_percentage))
           /\ (t.side = "BUY" /\ t.sl_percentage > 0)
                 => t.sl_price = Some(e * (100 - t.sl_percentage))
           /\ (t.side = "SELL" /\ t.tp_percentage > 0)
                 => t.tp_price = Some(e * (100 - t.tp_percentage))
           /\ (t.side = "SELL" /\ t.sl_percentage > 0)
                 => t.sl_price = Some(e * (100 + t.sl_percentage))
           /\ (t.tp_price = None) <=> ~(t.tp_percentage > 0)
           /\ (t.sl_price = None) <=> ~(t.sl_percentage > 0)

\* A stored SELL Trade with a take-profit price below its entry and no
\* stop-loss price, next to a BUY Trade with both prices.
C22_Witness ==
    /\ \E i \in DOMAIN trades :
          /\ trades[i].side = "SELL"
          /\ trades[i].tp_percentage > 0
          /\ trades[i].tp_price = Some(trades[i].entry_price
                                        * (100 - trades[i].tp_percentage))
          /\ trades[i].sl_price = None
    /\ \E i \in DOMAIN trades :
          /\ trades[i].side = "BUY"
          /\ trades[i].tp_price # None
          /\ trades[i].sl_price # None

----------------------------------------------------------------------------
(* Claims about Signal records and broadcasts, under SpecDet *)

\* The Signal records that tick number tick of task t appended.
RecordsOf(t, tick) ==
    {i \in DOMAIN ema_signals :
        ema_signals[i].task = t /\ ema_signals[i].tick = tick}

\* C23: a tick that computed EMA9 and EMA21 has appended exactly one Signal
\* record to the user's signal history when it is over, with or without a
\* crossover and whether or not an auto-trade was executed.
C23_EveryTickRecordsSignal ==
    \A t \in DOMAIN tasks :
        (TickOver(tasks[t]) /\ tasks[t].computed)
            => Cardinality(RecordsOf(t, tasks[t].ticks)) = 1

\* The broadcasts of the signal of tick number tick of task t.
BroadcastsOf(t, tick) ==
    {i \in DOMAIN broadcasts :
        broadcasts[i].task = t /\ broadcasts[i].tick = tick}

\* C24: when a tick is over, its signal has been published to
\* SignalBroadcast exactly once if a crossover fired on it (whether or not
\* an auto-trade was attempted or succeeded) and not at all otherwise.
C24_CrossoverBroadcastOnce ==
    \A t \in DOMAIN tasks :
        TickOver(tasks[t])
            => Cardinality(BroadcastsOf(t, tasks[t].ticks))
                  = IF tasks[t].detected THEN 1 ELSE 0

----------------------------------------------------------------------------
(* Claims about calculate_ema, under SpecEma *)

\* The recurrence ema := first close; ema := (close - ema) * 2/(p+1) + ema
\* over a series, as a fraction <<numerator, denominator>>.
RECURSIVE Recurrence(_, _)
Recurrence(series, p) ==
    IF Len(series) = 1 THEN <<series[1], 1>>
    ELSE LET ema == Recurrence(SubSeq(series, 1, Len(series) - 1), p)
             close == series[Len(series)]
         IN <<(close * ema[2] - ema[1]) * 2 + ema[1] * (p + 1),
              ema[2] * (p + 1)>>

SameFraction(a, b) == a[1] * b[2] = b[1] * a[2]

\* C25: for every supported exchange, a calculate_ema call that the venue
\* answered returns the recurrence applied to the market's closes in
\* chronological order (whatever the order the venue lists them in), and
\* no EMA when there are fewer than p closes.
C25_EmaOfChronologicalCloses ==
    (/\ ema_call.pc = "done"
     /\ ema_call.answer = "ok")
        => IF Len(ema_call.chronological) < ema_call.period
           THEN ema_call.result = None
           ELSE /\ ema_call.result # None
                /\ SameFraction(ema_call.result[1],
                                Recurrence(ema_call.chronological,
                                           ema_call.period))

----------------------------------------------------------------------------
(* Claims about the emergency stop, under SpecStop *)

\* C26: once stop_auto_trading has returned for a user and until the user
\* enables trading again, no step places an order of that user on the
\* exchange, also not a step of a detector tick that was in progress when
\* the stop returned.
C26_NoOrderAfterStop ==
    [][\A i \in DOMAIN exchange_orders' :
          i > Len(exchange_orders)
              => exchange_orders'[i].user \notin emergency_stopped]_vars

----------------------------------------------------------------------------
(* Claims about concurrent callers of create_order, under SpecRace *)

\* The number in the push key of a stored Trade: calls and pushes draw
\* their numbers from one counter, so a call with a smaller number ran its
\* check before that Trade was written.
PushNumber(trade) == trade.id[1][2]

ReturnOfCall(n) == CHOOSE r \in {returns[i] : i \in DOMAIN returns} : r.call = n

\* Both requests passed the idempotency check with a working lookup and
\* both left an order and an open Trade under the one client_order_id.
BothRequestsWrote ==
    /\ Cardinality(OrdersFor(UserA, RaceKey)) = 2
    /\ \E i, j \in DOMAIN trades :
          /\ i < j
          /\ trades[i].client_order_id = RaceKey
          /\ trades[j].client_order_id = RaceKey
          /\ trades[i].status = "open" /\ trades[j].status = "open"
          /\ ~ReturnOfCall(trades[i].call).missed
          /\ ~ReturnOfCall(trades[j].call).missed
          /\ ReturnOfCall(trades[i].call).slot # ReturnOfCall(trades[j].call).slot

\* An auto-trade execution whose pre-check saw no open Trade left a second
\* open Trade for its key.
ExecutionWroteSecond ==
    \E i, j \in DOMAIN trades :
        /\ i < j
        /\ SameKey(trades[i], trades[j])
        /\ trades[i].status = "open" /\ trades[j].status = "open"
        /\ ReturnOfCall(trades[j].call).slot \in TaskIds
        /\ tasks[ReturnOfCall(trades[j].call).slot].open_seen["futures"] = "none"
        /\ trades[j].call \notin
              tasks[ReturnOfCall(trades[j].call).slot].blind_calls

----------------------------------------------------------------------------
(* Claims about the scheduler's restarts, under SpecSchedLive *)

\* The settings keep a trade type enabled with the symbol on its watchlist,
\* the credentials of the settings' exchange are present, and the model's
\* bound on the tasks does not keep the next cycle from running.
Desired(user_id, symbol) ==
    /\ settings[user_id] # None
    /\ symbol \in symbols_to_monitor(settings[user_id][1])
    /\ HasApiKeys(user_id, settings[user_id][1].exchange)
    /\ Len(CycleResult.tks) <= MaxTasks

RunningFor(user_id, symbol) ==
    \E t \in DOMAIN tasks :
        /\ tasks[t].state = "running"
        /\ tasks[t].user = user_id /\ tasks[t].symbol = symbol

\* C28: if from some point on user a's settings keep trading enabled with
\* symbol S in an enabled watchlist and the credentials present, then from
\* some point on a detector task for (a, S) is running, also after an
\* earlier task for that key ended by itself.
C28_DesiredTaskEventuallyRuns ==
    <>[]Desired(UserA, SymS) => <>[]RunningFor(UserA, SymS)

----------------------------------------------------------------------------
(* Claims about settings changes, under SpecChange *)

\* The task is the detector the settings ask for.
DesiredTask(k, us) ==
    /\ k.symbol \in symbols_to_monitor(us)
    /\ k.exchange = us.exchange
    /\ k.interval = us.interval

\* The users whose settings a reconciliation cycle reads and acts on: the
\* store answers, and a user with a trade type enabled has credentials for
\* the settings' exchange.
Reconcilable ==
    {u \in Users :
        /\ firebase_initialized
        /\ settings[u] # None
        /\ (settings[u][1].spot_enabled \/ settings[u][1].futures_enabled)
              => HasApiKeys(u, settings[u][1].exchange)}

\* C29: after a reconciliation cycle, every task of a user that is still
\* running is the detector the user's settings ask for: a task whose symbol
\* left the enabled watchlists, or whose exchange or interval is no longer
\* the settings', has been cancelled.
C29_StaleTaskCancelled ==
    [][Reconcile =>
        \A u \in Reconcilable : \A t \in DOMAIN tasks' :
            (tasks'[t].state = "running" /\ tasks'[t].user = u)
                => DesiredTask(tasks'[t], settings[u][1])]_vars

----------------------------------------------------------------------------
(* Claims about the users' separation, under SpecUsers *)

\* The scheduler's state, as check_all_users finds it.
Sch == [reg |-> monitoring_tasks, tks |-> tasks, act |-> active_monitors]

\* What is left of task t when the cycle has dealt with user_id: the task
\* still runs, and its keys are where they were.
Untouched(after, t) ==
    LET k == tasks[t]
        key == task_key(k.user, k.exchange, k.symbol)
        mkey == monitor_key(k.user, k.symbol)
    IN /\ after.tks[t].state = "running"
       /\ <<key, t>> \in monitoring_tasks => <<key, t>> \in after.reg
       /\ mkey \in active_monitors => mkey \in after.act

\* C30: what a reconciliation cycle does for one user (the sync of the
\* user's monitors, or stop_all_monitoring when the user has both trade
\* types disabled) never cancels, unregisters or drops from the active set
\* a running task of a different user, also when one user id is a prefix
\* of the other or contains "_".
C30_OtherUsersUntouched ==
    \A u \in DOMAIN settings :
        (firebase_initialized /\ settings[u] # None) =>
            \A t \in DOMAIN tasks :
                (tasks[t].state = "running" /\ tasks[t].user # u)
                    => Untouched(check_user(Sch, u), t)

----------------------------------------------------------------------------
(* Claims about the scheduler's bookkeeping, under SpecSched *)

\* A registered task of the user and symbol that has not ended.
RegisteredRunning(reg, tks, user_id, symbol) ==
    \E p \in reg :
        /\ tks[p[2]].state = "running"
        /\ tks[p[2]].user = user_id
        /\ tks[p[2]].symbol = symbol

\* C31: after every reconciliation cycle the key of a (user, symbol) is in
\* the scheduler's active set if and only if a registered detector task of
\* that user and symbol is still running.
C31_ActiveIffRunning ==
    [][Reconcile =>
          \A u \in Users, symbol \in Symbols :
              monitor_key(u, symbol) \in active_monitors'
                  <=> RegisteredRunning(monitoring_tasks', tasks', u, symbol)]_vars

----------------------------------------------------------------------------
(* Claims about the ticks' use of the EMA cache, under SpecDet *)

\* The cached pair of the task's key is still on the side of the crossover
\* the tick came from, so that a later tick would find the crossover again.
CacheHoldsEarlierPair(k) ==
    LET c9 == ema_cache[<<k.user, k.symbol, k.interval, 9>>]
        c21 == ema_cache[<<k.user, k.symbol, k.interval, 21>>]
    IN /\ c9 # None /\ c21 # None
       /\ IF k.signal = "BULLISH" THEN c9[1].value < c21[1].value
          ELSE c9[1].value > c21[1].value

\* C32: a crossover is not lost: when a tick has computed a pair that
\* crosses the cached one and the tick is over, the tick has reported the
\* signal to monitor_symbol, or the cache still holds the earlier pair.
C32_CrossoverNotLost ==
    \A t \in DOMAIN tasks :
        LET k == tasks[t]
        IN (k.state = "running" /\ k.pc = "sleep" /\ k.signal # "")
              => k.detected \/ CacheHoldsEarlierPair(k)

----------------------------------------------------------------------------
(* Claims about the scheduler's loop, under SpecLoops *)

\* The tasks of run() that are inside the loop.
RunningLoops == {l \in DOMAIN loops : loops[l] = "sleep"}

\* C33: whatever the order of the start() and stop() calls, at most one
\* reconciliation loop is running at any time.
C33_AtMostOneLoop == Cardinality(RunningLoops) <= 1

\* The step of task t reads settings of its user that have both trade
\* types disabled: the store answers the read and the task is past the
\* credentials test of its first step.
ReadsDisabled(t) ==
    /\ TaskRun(t)
    /\ firebase_initialized
    /\ tasks'[t].error # "settings"
    /\ tasks[t].pc = "start" => HasApiKeys(tasks[t].user, tasks[t].exchange)
    /\ settings[tasks[t].user] # None
    /\ ~settings[tasks[t].user][1].spot_enabled
    /\ ~settings[tasks[t].user][1].futures_enabled

\* C34: a tick reads the user's settings from the store, and when they have
\* both spot and futures disabled the task ends in that step: no EMA is
\* computed, the EMA cache is not written and no order is placed.
C34_DisabledEndsTask ==
    [][\A t \in DOMAIN tasks :
          ReadsDisabled(t) =>
              /\ tasks'[t].state = "done"
              /\ ~tasks'[t].computed
              /\ ema_cache' = ema_cache
              /\ exchange_orders' = exchange_orders
              /\ trades' = trades]_vars

C34_Witness ==
    \E t \in DOMAIN tasks :
        /\ tasks[t].state = "done"
        /\ tasks[t].ticks >= 1
        /\ firebase_initialized
        /\ settings[tasks[t].user] # None
        /\ ~settings[tasks[t].user][1].spot_enabled
        /\ ~settings[tasks[t].user][1].futures_enabled

\* C35: a cancelled task takes no further step (it neither goes on with
\* its tick nor with the create_order call it was awaiting, so it writes no
\* cache entry and places no order), it stays cancelled, and a new task is
\* only created by the scheduler's cycle.
C35_CancelledTaskIsOver ==
    [][/\ \A t \in DOMAIN tasks :
             tasks[t].state = "cancelled"
                 => tasks'[t] = tasks[t] /\ co'[t] = co[t]
       /\ Len(tasks') > Len(tasks) => Reconcile]_vars

C35_Witness ==
    \E t \in DOMAIN tasks :
        /\ tasks[t].state = "cancelled"
        /\ tasks[t].pc \in {"ema9", "ema21", "price", "co_spot", "co_futures"}
        /\ Len(tasks) > t

\* What a read of the cache entry gives before the step: the value of an
\* entry that is younger than the time to live.
ReadBeforeStep(k, period) ==
    LET data == ema_cache[<<k.user, k.symbol, k.interval, period>>]
    IN IF firebase_initialized /\ data # None /\ now - data[1].timestamp < CacheTtl
       THEN Some(data[1].value)
       ELSE None

\* The entry of the cache after the step is the value the tick computed.
WrittenByStep(k, period, ema) ==
    ema_cache'[<<k.user, k.symbol, k.interval, period>>]
        = Some([value |-> ema[1], timestamp |-> now])

\* The step in which task t has the answer of its second calculate_ema.
PairStep(t) ==
    TickEma21(t) =>
        IF tasks'[t].computed
        THEN /\ tasks'[t].previous_ema9 = ReadBeforeStep(tasks[t], 9)
             /\ tasks'[t].previous_ema21 = ReadBeforeStep(tasks[t], 21)
             /\ WrittenByStep(tasks[t], 9, tasks'[t].ema9)
             /\ WrittenByStep(tasks[t], 21, tasks'[t].ema21)
        ELSE ema_cache' = ema_cache

C37_StalePairNoSignal ==
    \A t \in DOMAIN tasks :
        tasks[t].stale =>
            /\ tasks[t].signal = ""
            /\ ~tasks[t].detected
            /\ tasks[t].invoked = <<>>

C37_Witness ==
    \E t \in DOMAIN tasks :
        /\ tasks[t].stale
        /\ tasks[t].pc = "price"
        /\ tasks[t].ema9 # tasks[t].ema21
        /\ now = CacheTtl

----------------------------------------------------------------------------
(* Claims about the Trade records, under SpecTrades *)

\* The call that returned or raised in this step.
Ended == returns'[Len(returns')]
\* This step ends a create_order call that placed an order.
CreateReturns ==
    /\ Len(returns') = Len(returns) + 1
    /\ Ended.target = None /\ Ended.outcome = "returned" /\ ~Ended.idempotent
\* This step ends a close_position call.
CloseEnds == Len(returns') = Len(returns) + 1 /\ Ended.target # None

\* C38: a Trade record is created only by a create_order call that placed
\* its order (one record, when the store took the write), and a record
\* changes only in a close_position call that names it, which sets its
\* status to closed and its closed_at and nothing else: such a call
\* creates no record and changes no other record.
C38_TradeRecordsFrame ==
    [][/\ Len(trades') >= Len(trades)
       /\ Len(trades') > Len(trades) =>
             /\ Len(trades') = Len(trades) + 1
             /\ CreateReturns
             /\ trades'[Len(trades')].id = Ended.trade_id
             /\ trades'[Len(trades')].status = "open"
       /\ (CreateReturns /\ Ended.save_env = "ok") =>
             Len(trades') = Len(trades) + 1
       /\ \A i \in DOMAIN trades :
             trades'[i] # trades[i] =>
                /\ CloseEnds
                /\ Ended.user = trades[i].user /\ Ended.target = trades[i].id
                /\ trades'[i] = [trades[i] EXCEPT
                                    !.status = "closed",
                                    !.closed_at = trades'[i].closed_at]
                /\ \A j \in DOMAIN trades \ {i} : trades'[j] = trades[j]]_vars

----------------------------------------------------------------------------
(* Claim about the order id, checked under SpecOrderId *)

\* The first of orderId, order_id, id, data.orderId, result.orderId that
\* holds an id, the placeholder when none does.
FirstRecognized(result) ==
    LET found == <<result.orderId, result.order_id, result.id,
                   result.data.orderId, result.result.orderId>>
        first == {i \in 1..5 : /\ IsTrue(found[i])
                               /\ \A j \in 1..(i - 1) : ~IsTrue(found[j])}
    IN IF first = {} THEN Placeholder
       ELSE ToStr(found[CHOOSE i \in first : TRUE])

\* C39: for every result with which an adapter reports an accepted order,
\* create_order returns a Trade whose exchange_order_id is the first of
\* orderId, order_id, id, data.orderId, result.orderId that the result
\* holds, a placeholder id when it holds none, and the Trade is the one it
\* persisted: taking the order id never makes create_order fail.
C39_OrderIdNeverFails ==
    \A i \in DOMAIN returns :
        returns[i].adapter_env = "ok" =>
            /\ returns[i].outcome = "returned"
            /\ returns[i].exchange_order_id
                  = FirstRecognized(returns[i].result)
            /\ returns[i].save_env = "ok" =>
                  \E j \in DOMAIN trades :
                      /\ trades[j].id = returns[i].trade_id
                      /\ trades[j].exchange_order_id
                            = returns[i].exchange_order_id

\* C40: the Binance adapter never submits a market order whose quantity is
\* 0 or negative, also when rounding down to the step size gives 0 and the
\* symbol's minimum quantity is 0 or its lot size filter is missing.
C40_NoZeroQuantityOrder ==
    ad.exchange = Binance =>
        \A i \in DOMAIN ad.requests :
            ad.requests[i].kind = "market" => ad.requests[i].quantity > 0

====
